---- MODULE Spec2Model ----
(***************************************************************************)
(* Model of the chunk-cache TerrainLoader (Terrain Window Engine), its     *)
(* Chunk Store helpers and the terrain:: Tile Registry.                    *)
(*                                                                         *)
(* Units.  Latitudes and longitudes are integers counted in units of       *)
(* 1e-6 degree (the epsilon of terrain::findTile), so the degree           *)
(* arithmetic of the code is exact rational arithmetic here.  Heights are  *)
(* integers; the samples stored in the files are kilometre values.         *)
(*                                                                         *)
(* Raster geometry.  The raster is scaled down (TILE_WIDTH x TILE_HEIGHT   *)
(* = 12 x 8 with CHUNK_SIZE = 2 instead of 23040 x 15360 with 512).  The   *)
(* scaling keeps what the code relies on: both sides are exact multiples   *)
(* of CHUNK_SIZE, and the number of pixels per degree is the same in both  *)
(* axes (45 deg / 12 = 30 deg / 8).                                        *)
(***************************************************************************)
EXTENDS Integers, Sequences, FiniteSets, TLC

\* model units per degree: one unit is the 1e-6 degree epsilon of findTile
Deg == 1000000

CHUNK_SIZE == 2
TILE_WIDTH == 12
TILE_HEIGHT == 8
NUM_CHUNKS_X == TILE_WIDTH \div CHUNK_SIZE
NUM_CHUNKS_Y == TILE_HEIGHT \div CHUNK_SIZE
kLongitudeWrap == 360 * Deg

\* bounds of the arguments the caller passes
MaxWidth == 2
MaxHeight == 2
MaxSteps == 2

(***************************************************************************)
(* Numeric helpers: what the C++ operators do on the values that occur.    *)
(***************************************************************************)
Abs(a) == IF a < 0 THEN -a ELSE a

\* std::clamp(v, lo, hi)
Clamp(v, lo, hi) == IF v < lo THEN lo ELSE IF hi < v THEN hi ELSE v

\* std::fmod(a, m) for m > 0: the result has the sign of a
Fmod(a, m) == IF a >= 0 THEN a % m ELSE -((-a) % m)

\* rounding that drops the fraction
Round_Truncating(n, d) == IF n >= 0 THEN n \div d ELSE -((-n) \div d)

\* rounding to nearest with halves toward zero
Round_HalfTowardZero(n, d) == IF n >= 0 THEN (2 * n + d - 1) \div (2 * d)
                                        ELSE -((2 * (-n) + d - 1) \div (2 * d))

\* std::round(n / d) for d > 0: nearest integer, halves away from zero
Round(n, d) == IF n >= 0 THEN (2 * n + d) \div (2 * d)
                         ELSE -((2 * (-n) + d) \div (2 * d))

\* C++ integer division (truncation toward zero) for d > 0
CDiv(n, d) == IF n >= 0 THEN n \div d ELSE -((-n) \div d)

\* F(v) with v evaluated once (a local variable of the code)
Let(v, F(_)) == CHOOSE r \in {F(x) : x \in {v}} : TRUE

(***************************************************************************)
(* Tile Registry (terrain_dataset.hpp)                                     *)
(***************************************************************************)
TileMetadata(f, minLat, maxLat, minLon, maxLon) ==
    [filename |-> f,
     minLatitude |-> minLat * Deg, maxLatitude |-> maxLat * Deg,
     minLongitude |-> minLon * Deg, maxLongitude |-> maxLon * Deg]

\* kTiles in table order; a file is named by its position in the table
tiles ==
    << TileMetadata(1, -60, -30, 0, 45),    TileMetadata(2, -60, -30, 45, 90),
       TileMetadata(3, -60, -30, 90, 135),  TileMetadata(4, -60, -30, 135, 180),
       TileMetadata(5, -60, -30, 180, 225), TileMetadata(6, -60, -30, 225, 270),
       TileMetadata(7, -60, -30, 270, 315), TileMetadata(8, -60, -30, 315, 360),
       TileMetadata(9, -30, 0, 0, 45),      TileMetadata(10, -30, 0, 45, 90),
       TileMetadata(11, -30, 0, 90, 135),   TileMetadata(12, -30, 0, 135, 180),
       TileMetadata(13, -30, 0, 180, 225),  TileMetadata(14, -30, 0, 225, 270),
       TileMetadata(15, -30, 0, 270, 315),  TileMetadata(16, -30, 0, 315, 360),
       TileMetadata(17, 0, 30, 0, 45),      TileMetadata(18, 0, 30, 45, 90),
       TileMetadata(19, 0, 30, 90, 135),    TileMetadata(20, 0, 30, 135, 180),
       TileMetadata(21, 0, 30, 180, 225),   TileMetadata(22, 0, 30, 225, 270),
       TileMetadata(23, 0, 30, 270, 315),   TileMetadata(24, 0, 30, 315, 360),
       TileMetadata(25, 30, 60, 0, 45),     TileMetadata(26, 30, 60, 45, 90),
       TileMetadata(27, 30, 60, 90, 135),   TileMetadata(28, 30, 60, 135, 180),
       TileMetadata(29, 30, 60, 180, 225),  TileMetadata(30, 30, 60, 225, 270),
       TileMetadata(31, 30, 60, 270, 315),  TileMetadata(32, 30, 60, 315, 360) >>

\* the null TileMetadata pointer
NoTile == 0

\* wrapLongitude without the correction of a negative remainder
wrapLongitude_NegativeKept(lonDegrees) == Fmod(lonDegrees, kLongitudeWrap)

wrapLongitude(lonDegrees) ==
    LET wrapped == Fmod(lonDegrees, kLongitudeWrap)
    IN  IF wrapped < 0 THEN wrapped + kLongitudeWrap ELSE wrapped

longitudeSpan(tile) ==
    LET span == tile.maxLongitude - tile.minLongitude
    IN  IF span <= 0 THEN span + kLongitudeWrap ELSE span

\* longitudeInTile without the case of a tile that crosses the seam
longitudeInTile_NoSeamCase(tile, lon) ==
    lon >= tile.minLongitude /\ lon <= tile.maxLongitude

longitudeInTile(tile, lon) ==
    IF tile.minLongitude <= tile.maxLongitude
    THEN lon >= tile.minLongitude /\ lon <= tile.maxLongitude
    ELSE lon >= tile.minLongitude \/ lon <= tile.maxLongitude

\* longitudeOffsetWithinTile without the turn added across the seam
longitudeOffsetWithinTile_NoSeamCase(tile, lonDegrees) ==
    LET lon == wrapLongitude(lonDegrees)
        delta == lon - tile.minLongitude
        span == longitudeSpan(tile)
    IN  IF delta < 0 THEN 0 ELSE IF delta > span THEN span ELSE delta

longitudeOffsetWithinTile(tile, lonDegrees) ==
    LET lon == wrapLongitude(lonDegrees)
        d0 == lon - tile.minLongitude
        delta == IF tile.minLongitude > tile.maxLongitude /\ d0 < 0
                 THEN d0 + kLongitudeWrap ELSE d0
        span == longitudeSpan(tile)
    IN  IF delta < 0 THEN 0 ELSE IF delta > span THEN span ELSE delta

\* the match test of the scan without the 1e-6 degree widening
TileMatches_NoEpsilon(i, latDegrees, wrappedLon) ==
    /\ latDegrees >= tiles[i].minLatitude
    /\ latDegrees <= tiles[i].maxLatitude
    /\ longitudeInTile(tiles[i], wrappedLon)

\* the tile matches (lat, wrapped lon) in the scan of findTile; 1 is 1e-6 degree
TileMatches(i, latDegrees, wrappedLon) ==
    /\ latDegrees >= tiles[i].minLatitude - 1
    /\ latDegrees <= tiles[i].maxLatitude + 1
    /\ longitudeInTile(tiles[i], wrappedLon)

\* the scan of findTile from table position i on: the first match
RECURSIVE ScanTiles(_, _, _)
ScanTiles(i, latDegrees, wrappedLon) ==
    IF i > Len(tiles) THEN NoTile
    ELSE IF TileMatches(i, latDegrees, wrappedLon) THEN i
    ELSE ScanTiles(i + 1, latDegrees, wrappedLon)

\* index into tiles of the tile found, NoTile for nullptr
findTile(latDegrees, lonDegrees) ==
    IF latDegrees < -60 * Deg \/ latDegrees > 60 * Deg THEN NoTile
    ELSE ScanTiles(1, latDegrees, wrapLongitude(lonDegrees))

(***************************************************************************)
(* Backing files.  Raster(f, x, y) is the kilometre sample of raster pixel *)
(* (x, y) of file f; every sample is non-zero and names its file and       *)
(* pixel, so a wrong pixel, a wrong file and the 0.0 default all show.     *)
(* The .DAT file holds the chunks in row-major chunk order, each chunk     *)
(* row-major; FileSample(f, k) is the k-th float of the file.              *)
(***************************************************************************)
Raster(f, x, y) == (f - 1) * TILE_WIDTH * TILE_HEIGHT + y * TILE_WIDTH + x + 1

FileSample(f, k) ==
    LET chunkFloats == CHUNK_SIZE * CHUNK_SIZE
        linearChunkIndex == k \div chunkFloats
        inner == k % chunkFloats
        chunkY == linearChunkIndex \div NUM_CHUNKS_X
        chunkX == linearChunkIndex % NUM_CHUNKS_X
    IN  Raster(f, chunkX * CHUNK_SIZE + (inner % CHUNK_SIZE),
                  chunkY * CHUNK_SIZE + (inner \div CHUNK_SIZE))

(***************************************************************************)
(* Chunk Store.  m_tileCache maps the filename of every opened TileStream  *)
(* to its chunkCache; a chunkCache maps a chunk key to the decoded chunk,  *)
(* a sequence of CHUNK_SIZE^2 samples (0-based index i is element i + 1).  *)
(* A fetch returns the updated m_tileCache together with its result and    *)
(* an event that records what the fetch did:                               *)
(*   read = "ok"    the chunk was read from the file and cached            *)
(*          "hit"   the chunk was served from the chunkCache               *)
(*          "fail"  the read failed (stream error), nothing was cached     *)
(*          "range" the chunk coordinates were rejected, no read           *)
(*          "band" / "notile" / "noopen"  lookupHeight returned 0.0        *)
(*                  before any chunk was fetched                           *)
(* pixelsPerDegree / degreesPerPixel of a TileStream are determined by the *)
(* tile and the raster constants and are recomputed where they are used.   *)
(* The zero-span exception of ensureTileStream cannot fire: every tile of  *)
(* the table spans 45 x 30 degrees.                                        *)
(***************************************************************************)
EmptyMap == [k \in {} |-> 0]

\* (chunkY << 32) | chunkX is injective on the chunk grid; modelled as the pair
chunkKey(chunkX, chunkY) == <<chunkY, chunkX>>

\* the value an out-of-range vector index would read (undefined behaviour)
OutOfBoundsRead == -1

NoEvent(read) ==
    [file |-> 0, pixelX |-> 0, pixelY |-> 0, chunkX |-> 0, chunkY |-> 0,
     inner |-> 0, read |-> read]

\* the stream is non-null afterwards iff info.filename \in DOMAIN of the result
ensureTileStream(tc, info, unopenable) ==
    IF info.filename \in DOMAIN tc THEN tc
    ELSE IF info.filename \in unopenable THEN tc
    ELSE tc @@ (info.filename :> EmptyMap)

\* fetchChunk that caches the zero-filled buffer of a failed read
fetchChunk_CachesFailure(tc, f, chunkX, chunkY, bad) ==
    IF chunkX < 0 \/ chunkX >= NUM_CHUNKS_X \/ chunkY < 0 \/ chunkY >= NUM_CHUNKS_Y
    THEN [tc |-> tc, ok |-> FALSE, chunk |-> <<>>, read |-> "range"]
    ELSE IF chunkKey(chunkX, chunkY) \in DOMAIN tc[f]
    THEN [tc |-> tc, ok |-> TRUE, chunk |-> tc[f][chunkKey(chunkX, chunkY)],
          read |-> "hit"]
    ELSE LET linearChunkIndex == chunkY * NUM_CHUNKS_X + chunkX
             floatOffset == linearChunkIndex * CHUNK_SIZE * CHUNK_SIZE
             chunkData == [i \in 1..(CHUNK_SIZE * CHUNK_SIZE) |->
                              FileSample(f, floatOffset + i - 1)]
             zeroData == [i \in 1..(CHUNK_SIZE * CHUNK_SIZE) |-> 0]
         IN  IF <<f, chunkX, chunkY>> \in bad
             THEN [tc |-> [tc EXCEPT ![f] = (chunkKey(chunkX, chunkY) :> zeroData) @@ @],
                   ok |-> FALSE, chunk |-> <<>>, read |-> "fail"]
             ELSE [tc |-> [tc EXCEPT ![f] = (chunkKey(chunkX, chunkY) :> chunkData) @@ @],
                   ok |-> TRUE, chunk |-> chunkData, read |-> "ok"]

\* fetchChunk without the cache: every call reads the chunk from the file
fetchChunk_Uncached(tc, f, chunkX, chunkY, bad) ==
    IF chunkX < 0 \/ chunkX >= NUM_CHUNKS_X \/ chunkY < 0 \/ chunkY >= NUM_CHUNKS_Y
    THEN [tc |-> tc, ok |-> FALSE, chunk |-> <<>>, read |-> "range"]
    ELSE LET linearChunkIndex == chunkY * NUM_CHUNKS_X + chunkX
             floatOffset == linearChunkIndex * CHUNK_SIZE * CHUNK_SIZE
             chunkData == [i \in 1..(CHUNK_SIZE * CHUNK_SIZE) |->
                              FileSample(f, floatOffset + i - 1)]
         IN  IF <<f, chunkX, chunkY>> \in bad
             THEN [tc |-> tc, ok |-> FALSE, chunk |-> <<>>, read |-> "fail"]
             ELSE [tc |-> tc, ok |-> TRUE, chunk |-> chunkData, read |-> "ok"]

\* fetchChunk in which one failing chunk makes every read of its file fail
fetchChunk_FileFails(tc, f, chunkX, chunkY, bad) ==
    IF chunkX < 0 \/ chunkX >= NUM_CHUNKS_X \/ chunkY < 0 \/ chunkY >= NUM_CHUNKS_Y
    THEN [tc |-> tc, ok |-> FALSE, chunk |-> <<>>, read |-> "range"]
    ELSE IF chunkKey(chunkX, chunkY) \in DOMAIN tc[f]
    THEN [tc |-> tc, ok |-> TRUE, chunk |-> tc[f][chunkKey(chunkX, chunkY)],
          read |-> "hit"]
    ELSE LET linearChunkIndex == chunkY * NUM_CHUNKS_X + chunkX
             floatOffset == linearChunkIndex * CHUNK_SIZE * CHUNK_SIZE
             chunkData == [i \in 1..(CHUNK_SIZE * CHUNK_SIZE) |->
                              FileSample(f, floatOffset + i - 1)]
         IN  IF \E b \in bad : b[1] = f
             THEN [tc |-> tc, ok |-> FALSE, chunk |-> <<>>, read |-> "fail"]
             ELSE [tc |-> [tc EXCEPT ![f] = (chunkKey(chunkX, chunkY) :> chunkData) @@ @],
                   ok |-> TRUE, chunk |-> chunkData, read |-> "ok"]

fetchChunk(tc, f, chunkX, chunkY, bad) ==
    IF chunkX < 0 \/ chunkX >= NUM_CHUNKS_X \/ chunkY < 0 \/ chunkY >= NUM_CHUNKS_Y
    THEN [tc |-> tc, ok |-> FALSE, chunk |-> <<>>, read |-> "range"]
    ELSE IF chunkKey(chunkX, chunkY) \in DOMAIN tc[f]
    THEN [tc |-> tc, ok |-> TRUE, chunk |-> tc[f][chunkKey(chunkX, chunkY)],
          read |-> "hit"]
    ELSE LET linearChunkIndex == chunkY * NUM_CHUNKS_X + chunkX
             floatOffset == linearChunkIndex * CHUNK_SIZE * CHUNK_SIZE
             chunkData == [i \in 1..(CHUNK_SIZE * CHUNK_SIZE) |->
                              FileSample(f, floatOffset + i - 1)]
         IN  IF <<f, chunkX, chunkY>> \in bad
             THEN [tc |-> tc, ok |-> FALSE, chunk |-> <<>>, read |-> "fail"]
             ELSE [tc |-> [tc EXCEPT ![f] = (chunkKey(chunkX, chunkY) :> chunkData) @@ @],
                   ok |-> TRUE, chunk |-> chunkData, read |-> "ok"]

\* getHeightFromChunk that indexes the chunk column-major
getHeightFromChunk_ColumnMajor(tc, f, pixelX, pixelY, bad) ==
    LET chunkX == CDiv(pixelX, CHUNK_SIZE)
        chunkY == CDiv(pixelY, CHUNK_SIZE)
        innerX == pixelX - chunkX * CHUNK_SIZE
        innerY == pixelY - chunkY * CHUNK_SIZE
        innerIndex == innerX * CHUNK_SIZE + innerY
    IN  Let(fetchChunk(tc, f, chunkX, chunkY, bad), LAMBDA r :
            [tc |-> r.tc,
             val |-> IF ~r.ok THEN 0
                     ELSE IF innerIndex >= 0 /\ innerIndex < Len(r.chunk)
                     THEN r.chunk[innerIndex + 1] ELSE OutOfBoundsRead,
             ev |-> [file |-> f, pixelX |-> pixelX, pixelY |-> pixelY,
                     chunkX |-> chunkX, chunkY |-> chunkY,
                     inner |-> innerIndex, read |-> r.read]])

getHeightFromChunk(tc, f, pixelX, pixelY, bad) ==
    LET chunkX == CDiv(pixelX, CHUNK_SIZE)
        chunkY == CDiv(pixelY, CHUNK_SIZE)
        innerX == pixelX - chunkX * CHUNK_SIZE
        innerY == pixelY - chunkY * CHUNK_SIZE
        innerIndex == innerY * CHUNK_SIZE + innerX
    IN  Let(fetchChunk(tc, f, chunkX, chunkY, bad), LAMBDA r :
            [tc |-> r.tc,
             val |-> IF ~r.ok THEN 0
                     ELSE IF innerIndex >= 0 /\ innerIndex < Len(r.chunk)
                     THEN r.chunk[innerIndex + 1] ELSE OutOfBoundsRead,
             ev |-> [file |-> f, pixelX |-> pixelX, pixelY |-> pixelY,
                     chunkX |-> chunkX, chunkY |-> chunkY,
                     inner |-> innerIndex, read |-> r.read]])

\* the band test dropped: every latitude goes on to findTile
outsideCoveredBand_Never(latDeg) == FALSE

\* the first test of lookupHeight: the latitude is beyond the covered band
outsideCoveredBand(latDeg) == latDeg < -60 * Deg \/ latDeg > 60 * Deg

lookupHeight(tc, latDeg, lonDeg, unopenable, bad) ==
    IF outsideCoveredBand(latDeg)
    THEN [tc |-> tc, val |-> 0, ev |-> NoEvent("band")]
    ELSE
    LET wrappedLon == wrapLongitude(lonDeg)
        sampleTile == findTile(latDeg, lonDeg)
    IN  IF sampleTile = NoTile THEN [tc |-> tc, val |-> 0, ev |-> NoEvent("notile")]
        ELSE
        LET info == tiles[sampleTile]
        IN  Let(ensureTileStream(tc, info, unopenable), LAMBDA tc1 :
            IF info.filename \notin DOMAIN tc1
            THEN [tc |-> tc1, val |-> 0,
                  ev |-> [NoEvent("noopen") EXCEPT !.file = info.filename]]
            ELSE
            LET lonOffset == longitudeOffsetWithinTile(info, wrappedLon)
                clampedSampleLat == Clamp(latDeg, info.minLatitude, info.maxLatitude)
                pixelX == Clamp(Round(lonOffset * TILE_WIDTH, longitudeSpan(info)),
                                0, TILE_WIDTH - 1)
                pixelY == Clamp(Round((info.maxLatitude - clampedSampleLat) * TILE_HEIGHT,
                                      info.maxLatitude - info.minLatitude),
                                0, TILE_HEIGHT - 1)
            IN  getHeightFromChunk(tc1, info.filename, pixelX, pixelY, bad))

\* clearCachedChunks that closes the files and drops their entries
clearCachedChunks_DropEntries(tc) == EmptyMap

\* clearCachedChunks that leaves the decoded chunks in place
clearCachedChunks_Keep(tc) == tc

clearCachedChunks(tc) == [f \in DOMAIN tc |-> EmptyMap]

calculateViewParams(tile, povLat, povLon, width, height, steps) ==
    LET lonSpan == longitudeSpan(tile)
        latSpan == tile.maxLatitude - tile.minLatitude
        lonOffsetDegrees == longitudeOffsetWithinTile(tile, povLon)
        clampedLat == Clamp(povLat, tile.minLatitude, tile.maxLatitude)
        centerX == Clamp(Round(lonOffsetDegrees * TILE_WIDTH, lonSpan), 0, TILE_WIDTH - 1)
        centerY == Clamp(Round((tile.maxLatitude - clampedLat) * TILE_HEIGHT, latSpan),
                         0, TILE_HEIGHT - 1)
    IN  [centerX |-> centerX, centerY |-> centerY,
         startX |-> centerX - CDiv(width * steps, 2),
         startY |-> centerY - CDiv(height * steps, 2),
         degPerPixelX |-> lonSpan \div TILE_WIDTH,
         degPerPixelY |-> latSpan \div TILE_HEIGHT]

(***************************************************************************)
(* The per-cell loop shared by doFullLoad and doScrollLoad: cells are      *)
(* visited in row-major order; p.needs is the set of data indexes to       *)
(* fetch.  acc = [data, tc, log]; every fetched cell appends one event     *)
(* (with its data index, source pixel and whether the fast path was used). *)
(***************************************************************************)
\* the fast-path test dropped: every source pixel is read from the primary tile
insidePrimaryTile_Always(srcX, srcY) == TRUE

\* the test that selects the fast path: the source pixel is on the primary tile
insidePrimaryTile(srcX, srcY) ==
    srcY >= 0 /\ srcY < TILE_HEIGHT /\ srcX >= 0 /\ srcX < TILE_WIDTH

SampleCell(acc, p, i) ==
    LET row == i \div p.width
        x == i % p.width
        srcY == p.startY + row * p.steps
        srcX == p.startX + x * p.steps
        inside == insidePrimaryTile(srcX, srcY)
    IN  Let(IF inside
            THEN getHeightFromChunk(acc.tc, p.tile.filename, srcX, srcY, p.bad)
            ELSE lookupHeight(acc.tc,
                              p.tile.maxLatitude - srcY * p.degPerPixelY,
                              p.tile.minLongitude + srcX * p.degPerPixelX,
                              p.unopenable, p.bad),
            LAMBDA r :
            [data |-> [acc.data EXCEPT ![i + 1] = r.val], tc |-> r.tc,
             log |-> Append(acc.log,
                            [cell |-> i, srcX |-> srcX, srcY |-> srcY,
                             inside |-> inside] @@ r.ev)])

RECURSIVE LoadCells(_, _, _)
LoadCells(i, acc, p) ==
    IF i >= Len(acc.data) THEN acc
    ELSE IF i \in p.needs
    THEN Let(SampleCell(acc, p, i), LAMBDA next : LoadCells(i + 1, next, p))
    ELSE LoadCells(i + 1, acc, p)

(***************************************************************************)
(* Terrain Window Engine.  eng is the member state of a TerrainLoader:     *)
(* m_currentLat, m_currentLon and m_warnedMissingTile are written but      *)
(* never read by the class and are left out.  a = [lat, lon, width,        *)
(* height, steps] are the arguments of the call, t the index of the tile   *)
(* findTile resolved, env = [unopenable, bad] the state of the file system *)
(* during the call.  Each load returns the new member state, the events of *)
(* the samples it fetched and the path it took.                            *)
(***************************************************************************)
INT_MAX == 2147483647
INT_MIN == -INT_MAX - 1

\* std::abs on int: abs(INT_MIN) overflows and stays INT_MIN
CAbs(a) == IF a = INT_MIN THEN INT_MIN ELSE Abs(a)

LoadParams(tile, v, startX, startY, a, needs, env) ==
    [tile |-> tile, startX |-> startX, startY |-> startY,
     width |-> a.width, steps |-> a.steps,
     degPerPixelX |-> v.degPerPixelX, degPerPixelY |-> v.degPerPixelY,
     needs |-> needs, unopenable |-> env.unopenable, bad |-> env.bad]

\* the buffer cleared whenever the primary tile cannot be opened
bufferAfterOpenFailure_Cleared(eng) == <<>>

\* the buffer after doFullLoad failed to open the primary tile: cleared only
\* if the engine is not initialized
bufferAfterOpenFailure(eng) ==
    IF eng.m_isInitialized THEN eng.m_elevationData ELSE <<>>

doFullLoad(eng, a, t, env) ==
    LET tile == tiles[t]
        v == calculateViewParams(tile, a.lat, a.lon, a.width, a.height, a.steps)
        n == a.width * a.height
    IN  Let(ensureTileStream(eng.m_tileCache, tile, env.unopenable), LAMBDA tc1 :
        IF tile.filename \notin DOMAIN tc1
        THEN [eng |-> [eng EXCEPT !.m_elevationData = bufferAfterOpenFailure(eng)],
              log |-> <<>>, path |-> "openfail"]
        ELSE
        Let(Let(LoadParams(tile, v, v.startX, v.startY, a, 0..(n - 1), env), LAMBDA p :
                LoadCells(0, [data |-> [i \in 1..n |-> 0], tc |-> tc1, log |-> <<>>], p)),
            LAMBDA acc :
            [eng |-> [m_isInitialized |-> TRUE,
                      m_currentWidth |-> a.width,
                      m_currentHeight |-> a.height,
                      m_currentSteps |-> a.steps,
                      m_currentCenterX |-> v.centerX,
                      m_currentCenterY |-> v.centerY,
                      m_currentTileFile |-> tile.filename,
                      m_elevationData |-> acc.data,
                      m_tileCache |-> clearCachedChunks(acc.tc)],
             log |-> acc.log, path |-> "full"]))

\* what static_cast<int>(std::round(delta / 0.0)) can yield: the conversion
\* of NaN or an infinity to int is undefined (INT_MIN on x86-64)
UBShift == {INT_MIN, 0, INT_MAX}

\* the possible (gridShiftX, gridShiftY) of a scroll load
GridShift(eng, a, t) ==
    LET v == calculateViewParams(tiles[t], a.lat, a.lon, a.width, a.height, a.steps)
        deltaX_src == v.centerX - eng.m_currentCenterX
        deltaY_src == v.centerY - eng.m_currentCenterY
    IN  IF a.steps = 0 THEN UBShift \X UBShift
        ELSE {<<Round(deltaX_src, a.steps), Round(deltaY_src, a.steps)>>}

\* oldX without the shift: the cell is copied from its own column
oldX_Unshifted(i, width, gridShiftX) == i % width

\* oldY without the shift: the cell is copied from its own row
oldY_Unshifted(i, width, gridShiftY) == i \div width

\* the column and row of the old buffer that cell i of the new buffer shows
oldX(i, width, gridShiftX) == (i % width) + gridShiftX

oldY(i, width, gridShiftY) == (i \div width) + gridShiftY

\* the fallback never taken
noUsableOverlap_Never(gridShiftX, gridShiftY, width, height) == FALSE

\* the shift is at least as large as the window: fall back to a full load
noUsableOverlap(gridShiftX, gridShiftY, width, height) ==
    CAbs(gridShiftX) >= width \/ CAbs(gridShiftY) >= height

\* the centre moved by the grid shift without the stride
effectiveNewCenter_Unscaled(oldCenter, gridShiftC, steps) == oldCenter + gridShiftC

\* the centre a scroll load records: old centre + grid shift * stride
effectiveNewCenter(oldCenter, gridShiftC, steps) == oldCenter + gridShiftC * steps

doScrollLoad(eng, a, t, env, shift) ==
    LET tile == tiles[t]
        v == calculateViewParams(tile, a.lat, a.lon, a.width, a.height, a.steps)
        gridShiftX == shift[1]
        gridShiftY == shift[2]
        width == a.width
        height == a.height
        n == width * height
    IN  IF gridShiftX = 0 /\ gridShiftY = 0
        THEN [eng |-> eng, log |-> <<>>, path |-> "noop"]
        ELSE IF noUsableOverlap(gridShiftX, gridShiftY, width, height)
        THEN [doFullLoad(eng, a, t, env) EXCEPT
                  !.path = IF @ = "full" THEN "scroll_full" ELSE @]
        ELSE
        LET reused(i) == /\ oldX(i, width, gridShiftX) >= 0
                         /\ oldX(i, width, gridShiftX) < width
                         /\ oldY(i, width, gridShiftY) >= 0
                         /\ oldY(i, width, gridShiftY) < height
            newData == [k \in 1..n |->
                           IF reused(k - 1)
                           THEN eng.m_elevationData[oldY(k - 1, width, gridShiftY) * width
                                                    + oldX(k - 1, width, gridShiftX) + 1]
                           ELSE 0]
            needsLoading == {i \in 0..(n - 1) : ~reused(i)}
            effectiveNewCenterX == effectiveNewCenter(eng.m_currentCenterX, gridShiftX, a.steps)
            effectiveNewCenterY == effectiveNewCenter(eng.m_currentCenterY, gridShiftY, a.steps)
            effectiveNewStartX == effectiveNewCenterX - CDiv(width * a.steps, 2)
            effectiveNewStartY == effectiveNewCenterY - CDiv(height * a.steps, 2)
        IN  Let(ensureTileStream(eng.m_tileCache, tile, env.unopenable), LAMBDA tc1 :
            IF tile.filename \notin DOMAIN tc1
            THEN [eng |-> eng, log |-> <<>>, path |-> "scroll_openfail"]
            ELSE
            Let(Let(LoadParams(tile, v, effectiveNewStartX, effectiveNewStartY,
                               a, needsLoading, env), LAMBDA p :
                    LoadCells(0, [data |-> newData, tc |-> tc1, log |-> <<>>], p)),
                LAMBDA acc :
                [eng |-> [eng EXCEPT !.m_elevationData = acc.data,
                                     !.m_currentCenterX = effectiveNewCenterX,
                                     !.m_currentCenterY = effectiveNewCenterY,
                                     !.m_tileCache = clearCachedChunks(acc.tc)],
                 log |-> acc.log, path |-> "scroll"]))

\* needsFullLoad without the comparison of the stride
needsFullLoad_IgnoringSteps(eng, a, t) ==
    \/ ~eng.m_isInitialized
    \/ a.width # eng.m_currentWidth
    \/ a.height # eng.m_currentHeight
    \/ tiles[t].filename # eng.m_currentTileFile

needsFullLoad(eng, a, t) ==
    \/ ~eng.m_isInitialized
    \/ a.width # eng.m_currentWidth
    \/ a.height # eng.m_currentHeight
    \/ a.steps # eng.m_currentSteps
    \/ tiles[t].filename # eng.m_currentTileFile

\* the copy loadOrUpdateTerrain returns after a load: kilometres to metres
dataInMeters(data) == [i \in 1..Len(data) |-> data[i] * 1000]

\* NoTileResult that hands back a one-sample placeholder instead
NoTileResult_Placeholder(eng) == <<0>>

\* a no-tile return that hands out the engine's own vector
ReturnStorage_Reference(p) == IF p = "notile" THEN "engine" ELSE "fresh"

\* the storage of the vector a call returns: the function returns
\* std::vector<float> by value, so the no-tile return copy-initializes a new
\* vector from m_elevationData (or from a temporary) and the load paths
\* return the local dataInMeters; "engine" would be m_elevationData itself
ReturnStorage(p) == "fresh"

\* the vector returned when findTile resolves no tile
NoTileResult(eng) == IF eng.m_isInitialized THEN eng.m_elevationData ELSE <<>>

\* what a call hands back: the new member state, the returned vector, the
\* path taken, the grid shift of the scroll path and the fetch events
Returned(r, shift) ==
    [eng |-> r.eng, ret |-> dataInMeters(r.eng.m_elevationData),
     path |-> r.path, gridShift |-> shift, log |-> r.log]

\* the outcomes of loadOrUpdateTerrain(lat, lon, width, height, steps) on
\* member state eng; more than one only where the code's behaviour is undefined
loadOrUpdateTerrain(eng, a, env) ==
    LET newTile == findTile(a.lat, a.lon)
    IN  IF newTile = NoTile
        THEN {[eng |-> eng, ret |-> NoTileResult(eng), path |-> "notile",
               gridShift |-> <<0, 0>>, log |-> <<>>]}
        ELSE IF needsFullLoad(eng, a, newTile)
        THEN {Returned(doFullLoad(eng, a, newTile, env), <<0, 0>>)}
        ELSE {Returned(doScrollLoad(eng, a, newTile, env, shift), shift) :
                 shift \in GridShift(eng, a, newTile)}

(***************************************************************************)
(* State                                                                   *)
(***************************************************************************)
VARIABLES
    m_isInitialized, m_currentWidth, m_currentHeight, m_currentSteps,
    m_currentCenterX, m_currentCenterY, m_currentTileFile,
    m_elevationData,   \* the engine's buffer, kilometres, row-major
    m_tileCache,       \* opened TileStreams: filename -> chunkCache
    unopenable,        \* files of the data root that cannot be opened
    call,              \* arguments and read faults of the last call
    ret,               \* the vector the last call returned
    path,              \* the path the last call took
    gridShift,         \* (gridShiftX, gridShiftY) of the last scroll
    log,               \* the events of the samples the last call fetched
    probe,             \* the arguments of the last direct use of a helper
    result,            \* what that use returned
    maxCachedTiles_,   \* TerrainTileCache: capacity, 0 before construction
    cache_,            \* TerrainTileCache: TileKey -> TileSample
    lruList_,          \* TerrainTileCache: the keys, most recently used first
    streams_           \* TerrainTileCache: filenames of the opened streams

engVars == <<m_isInitialized, m_currentWidth, m_currentHeight, m_currentSteps,
             m_currentCenterX, m_currentCenterY, m_currentTileFile,
             m_elevationData, m_tileCache>>

vars == <<m_isInitialized, m_currentWidth, m_currentHeight, m_currentSteps,
          m_currentCenterX, m_currentCenterY, m_currentTileFile,
          m_elevationData, m_tileCache, unopenable, call, ret, path, gridShift, log,
          probe, result, maxCachedTiles_, cache_, lruList_, streams_>>

tileCacheVars == <<maxCachedTiles_, cache_, lruList_, streams_>>

Engine ==
    [m_isInitialized |-> m_isInitialized,
     m_currentWidth |-> m_currentWidth,
     m_currentHeight |-> m_currentHeight,
     m_currentSteps |-> m_currentSteps,
     m_currentCenterX |-> m_currentCenterX,
     m_currentCenterY |-> m_currentCenterY,
     m_currentTileFile |-> m_currentTileFile,
     m_elevationData |-> m_elevationData,
     m_tileCache |-> m_tileCache]

Env(bad) == [unopenable |-> unopenable, bad |-> bad]

(***************************************************************************)
(* Inputs.  Tile 17 covers 0..30 N, 0..45 E, tile 18 is its eastern and    *)
(* tile 24 (across the 0/360 seam) its western neighbour; one pixel is     *)
(* 3.75 degrees.  The positions inside tile 17 are its pixel columns 1, 2  *)
(* in rows 4 and 5 (a window of two columns at stride 2 centred on column  *)
(* 1 spills over the seam); the position in tile 18 is column 1, row 4.   *)
(* The file of tile 25 (30..60 N, 0..45 E) is missing from the data root.  *)
(***************************************************************************)
PixelDeg == (45 * Deg) \div TILE_WIDTH

Args(lat, lon, width, height, steps) ==
    [lat |-> lat, lon |-> lon, width |-> width, height |-> height, steps |-> steps]

Lats == {15 * Deg, 15 * Deg - PixelDeg}
Lons == {PixelDeg, 2 * PixelDeg}
OtherTileLon == 50 * Deg
MissingTileLat == 45 * Deg
OutOfBandLat == 70 * Deg
\* the (width, height) pairs of the calls that leave tile 17
Sizes == {<<1, 1>>, <<MaxWidth, MaxHeight>>}
Widths == {1, MaxWidth}
Heights == {1, MaxHeight}
Strides == 1..MaxSteps
\* calls with a non-positive width, height or stride
InvalidCalls ==
    {Args(15 * Deg, PixelDeg, 0, MaxHeight, 1),
     Args(15 * Deg, PixelDeg, MaxWidth, 0, 1),
     Args(15 * Deg, PixelDeg, MaxWidth, MaxHeight, 0),
     Args(15 * Deg, 2 * PixelDeg, MaxWidth, MaxHeight, 0)}
\* the files that are missing from the data root
MissingFiles == {25}
\* the chunk (file, chunkX, chunkY) whose read fails in a faulty call
ReadFaults == {{<<17, 0, 2>>}}

\* no helper has been used directly
NoProbe == [op |-> "none"]

Init ==
    /\ m_isInitialized = FALSE
    /\ m_currentWidth = 0
    /\ m_currentHeight = 0
    /\ m_currentSteps = 1
    /\ m_currentCenterX = 0
    /\ m_currentCenterY = 0
    /\ m_currentTileFile = 0
    /\ m_elevationData = <<>>
    /\ m_tileCache = EmptyMap
    /\ unopenable = MissingFiles
    /\ call = [lat |-> 0, lon |-> 0, width |-> 0, height |-> 0, steps |-> 0, bad |-> {}]
    /\ ret = <<>>
    /\ path = "init"
    /\ gridShift = <<0, 0>>
    /\ log = <<>>
    /\ probe = NoProbe
    /\ result = NoProbe
    /\ maxCachedTiles_ = 0
    /\ cache_ = EmptyMap
    /\ lruList_ = <<>>
    /\ streams_ = {}

SetEngine(e) ==
    /\ m_isInitialized' = e.m_isInitialized
    /\ m_currentWidth' = e.m_currentWidth
    /\ m_currentHeight' = e.m_currentHeight
    /\ m_currentSteps' = e.m_currentSteps
    /\ m_currentCenterX' = e.m_currentCenterX
    /\ m_currentCenterY' = e.m_currentCenterY
    /\ m_currentTileFile' = e.m_currentTileFile
    /\ m_elevationData' = e.m_elevationData
    /\ m_tileCache' = e.m_tileCache

\* what one call of loadOrUpdateTerrain does to the engine
CallEngine(a, bad) ==
    \E r \in loadOrUpdateTerrain(Engine, a, Env(bad)) :
        /\ SetEngine(r.eng)
        /\ call' = [lat |-> a.lat, lon |-> a.lon, width |-> a.width,
                    height |-> a.height, steps |-> a.steps, bad |-> bad]
        /\ ret' = r.ret
        /\ path' = r.path
        /\ gridShift' = r.gridShift
        /\ log' = r.log
        /\ unopenable' = unopenable
        /\ UNCHANGED tileCacheVars

\* one call of loadOrUpdateTerrain by the owner of the engine
Call(a, bad) == CallEngine(a, bad) /\ UNCHANGED <<probe, result>>

\* a call with valid arguments at a position inside the covered band
Load ==
    \E lat \in Lats, lon \in Lons, width \in Widths, height \in Heights,
       steps \in Strides :
        Call(Args(lat, lon, width, height, steps), {})

\* a call with valid arguments at a position in tile 25, whose file is missing
LoadMissingTile ==
    \E size \in Sizes :
        Call(Args(MissingTileLat, PixelDeg, size[1], size[2], 1), {})

\* a call with valid arguments at a latitude outside the covered band
LoadOutOfBand ==
    \E size \in Sizes :
        Call(Args(OutOfBandLat, PixelDeg, size[1], size[2], 1), {})

\* a call with valid arguments at a position in the neighbouring tile 18
LoadOtherTile ==
    \E size \in Sizes :
        Call(Args(15 * Deg, OtherTileLon, size[1], size[2], 1), {})

\* a call during which the reads of one chunk fail
LoadReadFault ==
    \E lat \in Lats, lon \in Lons, bad \in ReadFaults :
        Call(Args(lat, lon, MaxWidth, MaxHeight, 1), bad)

\* a call with a non-positive width, height or stride
LoadInvalid == \E a \in InvalidCalls : Call(a, {})

Next ==
    \/ Load
    \/ LoadOtherTile
    \/ LoadMissingTile
    \/ LoadOutOfBand
    \/ LoadReadFault
    \/ LoadInvalid

Spec == Init /\ [][Next]_vars

\* the calls during which nothing fails: valid arguments, every file the
\* window touches can be opened and read
NextFaultFree == Load \/ LoadOtherTile \/ LoadOutOfBand

SpecFaultFree == Init /\ [][NextFaultFree]_vars

(***************************************************************************)
(* A caller that keeps a returned vector, as LunarViewerApp keeps          *)
(* elevationData_: result = [storage, data] is the vector the caller       *)
(* holds.  The caller takes the return of a call, rescales the vector in   *)
(* place by the stride (view_tile.cpp reloadTerrain) and calls the engine  *)
(* again while still holding it.  A vector whose storage is the engine's   *)
(* shows the engine's buffer and writes through to it.                     *)
(***************************************************************************)
CallerLats == {15 * Deg, OutOfBandLat}

CallerArgs ==
    {Args(lat, lon, MaxWidth, 1, steps) :
        lat \in CallerLats, lon \in Lons, steps \in Strides}

\* the held vector as it reads after an engine call
HeldAfterCall(held, engineData) ==
    IF held.storage = "engine" THEN [held EXCEPT !.data = engineData] ELSE held

\* the caller calls the engine and keeps the returned vector
Take ==
    \E a \in CallerArgs :
        /\ CallEngine(a, {})
        /\ probe' = [op |-> "take"]
        /\ result' = [storage |-> ReturnStorage(path'), data |-> ret']

\* the caller calls the engine again while holding the vector of an earlier call
CallHolding ==
    /\ probe # NoProbe
    /\ \E a \in CallerArgs :
           /\ CallEngine(a, {})
           /\ probe' = [op |-> "call"]
           /\ result' = HeldAfterCall(result, m_elevationData')

\* the caller divides every sample of the vector it just took by the stride
Rescale ==
    /\ probe.op = "take"
    /\ result.data # <<>>
    /\ LET scaled == [i \in 1..Len(result.data) |-> result.data[i] \div call.steps]
       IN  /\ result' = [result EXCEPT !.data = scaled]
           /\ m_elevationData' = IF result.storage = "engine" THEN scaled
                                 ELSE m_elevationData
    /\ probe' = [op |-> "rescale"]
    /\ UNCHANGED <<m_isInitialized, m_currentWidth, m_currentHeight, m_currentSteps,
                   m_currentCenterX, m_currentCenterY, m_currentTileFile, m_tileCache,
                   unopenable, call, ret, path, gridShift, log, tileCacheVars>>

NextCaller == Take \/ CallHolding \/ Rescale

SpecCaller == Init /\ [][NextCaller]_vars

(***************************************************************************)
(* Small moves: requests that walk pixel by pixel along tile 17 at strides *)
(* larger than one pixel, so that a move can be smaller than half a grid   *)
(* cell.                                                                   *)
(***************************************************************************)
DriftLons == {k * PixelDeg : k \in 2..(3 + MaxSteps)}

DriftStrides == {MaxSteps, MaxSteps + 1}

SmallMove ==
    \E lat \in Lats, lon \in DriftLons, height \in Heights, steps \in DriftStrides :
        Call(Args(lat, lon, MaxWidth, height, steps), {})

SpecDrift == Init /\ [][SmallMove]_vars

(***************************************************************************)
(* Small moves next to the east edge of tile 17: requests that walk pixel  *)
(* by pixel over its last columns at strides larger than one pixel.        *)
(***************************************************************************)
EdgeLons == {k * PixelDeg : k \in (TILE_WIDTH - 2 - MaxSteps)..(TILE_WIDTH - 1)}

EdgeMove ==
    \E lat \in Lats, lon \in EdgeLons, height \in Heights, steps \in DriftStrides :
        Call(Args(lat, lon, MaxWidth, height, steps), {})

SpecEdge == Init /\ [][EdgeMove]_vars

(***************************************************************************)
(* A caller that settles: after some calls it passes the same arguments on *)
(* every call (a viewer whose point of view stopped moving reloads with    *)
(* unchanged povLatitudeDegrees_, povLongitudeDegrees_, width_, height_    *)
(* and samplingStep_).  probe records the arguments it settled on, the     *)
(* window the engine held after the first call with them and the number of *)
(* calls repeated since.                                                   *)
(***************************************************************************)
MaxRepeats == 3

RepeatArgs ==
    {Args(lat, lon, MaxWidth, 1, steps) : lat \in Lats, lon \in Lons, steps \in Strides}

\* the window state of the engine
Window(centerX, centerY, data) == [centerX |-> centerX, centerY |-> centerY, data |-> data]

\* a call before the caller settles
Move == probe = NoProbe /\ \E a \in RepeatArgs : Call(a, {})

\* the first call with the arguments the caller settles on
Settle ==
    /\ probe = NoProbe
    /\ \E a \in RepeatArgs :
           /\ CallEngine(a, {})
           /\ probe' = [op |-> "repeat", a |-> a, n |-> 0,
                        first |-> Window(m_currentCenterX', m_currentCenterY',
                                         m_elevationData')]
           /\ result' = result

\* a later call, with the same arguments
Repeat ==
    /\ probe.op = "repeat"
    /\ probe.n < MaxRepeats
    /\ CallEngine(probe.a, {})
    /\ probe' = [probe EXCEPT !.n = @ + 1]
    /\ result' = result

NextRepeat == Move \/ Settle \/ Repeat

SpecRepeat == Init /\ [][NextRepeat]_vars

(***************************************************************************)
(* Tile Registry on its own: findTile and longitudeInTile applied to       *)
(* positions on, next to and between the tile boundaries, with longitudes  *)
(* below 0 and above 360.                                                  *)
(***************************************************************************)
callVars == <<call, ret, path, gridShift, log>>

\* distance (in 1e-6 degree) of the probed positions from a boundary
ProbeEps == 2

ProbeLats ==
    {b * 15 * Deg + d : b \in -6..6, d \in -ProbeEps..ProbeEps}

ProbeLons ==
    {k * 45 * Deg + d : k \in -9..17, d \in {-1, 0, 1}}

\* a helper is applied once, to one argument tuple
ProbeFindTile ==
    \E lat \in ProbeLats, lon \in ProbeLons :
        /\ probe = NoProbe
        /\ probe' = [op |-> "findTile", lat |-> lat, lon |-> lon]
        /\ result' = findTile(lat, lon)
        /\ UNCHANGED <<engVars, unopenable, callVars, tileCacheVars>>

\* tile records whose longitude range crosses the 0/360 seam, and two of kTiles
SeamTiles ==
    {TileMetadata(0, 0, 30, 315, 45), TileMetadata(0, -30, 0, 350, 10)}

ProbeTiles == SeamTiles \cup {tiles[17], tiles[24]}

ProbeLongitudeInTile ==
    \E tile \in ProbeTiles, lon \in ProbeLons :
        /\ probe = NoProbe
        /\ probe' = [op |-> "longitudeInTile", tile |-> tile, lon |-> lon]
        /\ result' = longitudeInTile(tile, wrapLongitude(lon))
        /\ UNCHANGED <<engVars, unopenable, callVars, tileCacheVars>>

NextRegistry == ProbeFindTile \/ ProbeLongitudeInTile

SpecRegistry == Init /\ [][NextRegistry]_vars

(***************************************************************************)
(* The span of a tile and the offset of a longitude within it, on tile     *)
(* records with longitudes in [0, 360]: tiles of the table, tiles across   *)
(* the seam, a tile around the whole globe and a tile of a single          *)
(* meridian.                                                               *)
(***************************************************************************)
OffsetTiles ==
    ProbeTiles \cup {tiles[1], TileMetadata(0, 0, 30, 0, 360),
                     TileMetadata(0, 0, 30, 90, 90),
                     TileMetadata(0, 0, 30, 360, 0)}

ProbeLongitudeOffset ==
    \E tile \in OffsetTiles, lon \in ProbeLons, d \in -ProbeEps..ProbeEps :
        /\ probe = NoProbe
        /\ probe' = [op |-> "longitudeOffsetWithinTile", tile |-> tile,
                     lon |-> lon + d]
        /\ result' = [span |-> longitudeSpan(tile),
                      offset |-> longitudeOffsetWithinTile(tile, lon + d)]
        /\ UNCHANGED <<engVars, unopenable, callVars, tileCacheVars>>

SpecOffset == Init /\ [][ProbeLongitudeOffset]_vars

(***************************************************************************)
(* wrapLongitude in double arithmetic.  A double carries a fixed number of *)
(* significant bits, so the doubles next to 360.0 are 2^-44 degree apart   *)
(* while those next to 0.0 are far finer, and the sum of the function      *)
(* (wrapped += 360.0) rounds to the nearest double, ties to even.  Scaled: *)
(* longitudes are counted in steps of 1e-6 / SubDeg degree and a double    *)
(* has DoubleBits significant bits, which puts the doubles next to 360     *)
(* degrees two steps apart and leaves every multiple of 1e-6 degree that   *)
(* occurs exact.                                                           *)
(***************************************************************************)
SubDeg == 4
DoubleBits == 30

\* distance of the doubles around v, for |v| below 2^(DoubleBits + 1)
DoubleUlp(v) == IF Abs(v) < 2^DoubleBits THEN 1 ELSE 2

\* the double nearest to v >= 0, ties to the even significand
DoubleRound(v) ==
    LET ulp == DoubleUlp(v)
        q == v \div ulp
        r == v % ulp
    IN  IF 2 * r < ulp THEN q * ulp
        ELSE IF 2 * r > ulp THEN (q + 1) * ulp
        ELSE IF q % 2 = 0 THEN q * ulp ELSE (q + 1) * ulp

\* wrapLongitude on longitudes counted in sub-steps
wrapLongitudeSub(lonSub) ==
    LET wrapped == Fmod(lonSub, kLongitudeWrap * SubDeg)
    IN  IF wrapped < 0 THEN DoubleRound(wrapped + kLongitudeWrap * SubDeg)
        ELSE wrapped

\* findTile on a longitude counted in sub-steps: index of the first match
findTileSub(latDegrees, lonSub) ==
    IF latDegrees < -60 * Deg \/ latDegrees > 60 * Deg THEN NoTile
    ELSE LET wrappedLon == wrapLongitudeSub(lonSub)
             matches == {i \in 1..Len(tiles) :
                            /\ latDegrees >= tiles[i].minLatitude - 1
                            /\ latDegrees <= tiles[i].maxLatitude + 1
                            /\ longitudeInTile(
                                   [minLongitude |-> tiles[i].minLongitude * SubDeg,
                                    maxLongitude |-> tiles[i].maxLongitude * SubDeg],
                                   wrappedLon)}
         IN  IF matches = {} THEN NoTile
             ELSE CHOOSE i \in matches : \A j \in matches : i <= j

\* longitudes around the tile edges, in sub-steps
WrapLons ==
    {k * 45 * Deg * SubDeg + d : k \in -3..3, d \in -(2 * SubDeg)..(2 * SubDeg)}

WrapLats == {-45 * Deg, 15 * Deg, 60 * Deg + ProbeEps}

\* whole turns added to a longitude
WrapTurns == {-1, 0, 1}

\* the doubles among the probed longitudes
IsDouble(v) == IF v >= 0 THEN DoubleRound(v) = v ELSE DoubleRound(-v) = -v

ProbeWrapLongitude ==
    \E lat \in WrapLats, lon \in WrapLons, k \in WrapTurns :
        /\ probe = NoProbe
        /\ IsDouble(lon)
        /\ probe' = [op |-> "wrapLongitude", lat |-> lat, lon |-> lon, k |-> k,
                     turned |-> lon + k * kLongitudeWrap * SubDeg]
        /\ result' = [wrapped |-> wrapLongitudeSub(lon),
                      tile |-> findTileSub(lat, lon),
                      turnedTile |-> findTileSub(lat, lon + k * kLongitudeWrap * SubDeg)]
        /\ UNCHANGED <<engVars, unopenable, callVars, tileCacheVars>>

SpecWrap == Init /\ [][ProbeWrapLongitude]_vars

(***************************************************************************)
(* Chunk Store on its own: heights of pixels of one tile's file are looked *)
(* up through a store that keeps at most MaxCached decoded chunks between  *)
(* two clears.                                                             *)
(***************************************************************************)
MaxCached == 1

\* the file whose pixels are looked up: the last of the table
ChunkFile == Len(tiles)

ReadPixel ==
    \E x \in 0..(TILE_WIDTH - 1), y \in 0..(TILE_HEIGHT - 1) :
        \E tc \in {ensureTileStream(m_tileCache, tiles[ChunkFile], {})} :
            /\ \/ chunkKey(x \div CHUNK_SIZE, y \div CHUNK_SIZE) \in DOMAIN tc[ChunkFile]
               \/ Cardinality(DOMAIN tc[ChunkFile]) < MaxCached
            /\ \E r \in {getHeightFromChunk(tc, ChunkFile, x, y, {})} :
                   /\ m_tileCache' = r.tc
                   /\ probe' = [op |-> "getHeightFromChunk", file |-> ChunkFile,
                                pixelX |-> x, pixelY |-> y]
                   /\ result' = [val |-> r.val, ev |-> r.ev]
            /\ UNCHANGED <<m_isInitialized, m_currentWidth, m_currentHeight,
                           m_currentSteps, m_currentCenterX, m_currentCenterY,
                           m_currentTileFile, m_elevationData, unopenable, callVars, tileCacheVars>>

ClearChunks ==
    /\ probe # NoProbe
    /\ m_tileCache' = clearCachedChunks(m_tileCache)
    /\ probe' = [op |-> "clearCachedChunks"]
    /\ result' = NoProbe
    /\ UNCHANGED <<m_isInitialized, m_currentWidth, m_currentHeight,
                   m_currentSteps, m_currentCenterX, m_currentCenterY,
                   m_currentTileFile, m_elevationData, unopenable, callVars, tileCacheVars>>

NextChunkStore == ReadPixel \/ ClearChunks

SpecChunkStore == Init /\ [][NextChunkStore]_vars

(***************************************************************************)
(* Chunk Store with read faults: pixels of the first chunks of the file    *)
(* are fetched, and the read of a fetch may fail.  fetchChunk clears the   *)
(* stream's error flags before every read and after a failed one, so a     *)
(* read depends on no earlier failure.  probe.failed remembers the chunks  *)
(* whose read has failed.                                                  *)
(***************************************************************************)
FaultPixels == (0..(2 * CHUNK_SIZE - 1)) \X (0..(2 * CHUNK_SIZE - 1))

\* the decoded chunks of file f held by the store
ChunksOf(tc, f) == IF f \in DOMAIN tc THEN tc[f] ELSE EmptyMap

FetchPixel ==
    \E p \in FaultPixels, fault \in BOOLEAN :
        LET key == chunkKey(p[1] \div CHUNK_SIZE, p[2] \div CHUNK_SIZE)
            bad == IF fault
                   THEN {<<ChunkFile, p[1] \div CHUNK_SIZE, p[2] \div CHUNK_SIZE>>}
                   ELSE {}
        IN  \E tc \in {ensureTileStream(m_tileCache, tiles[ChunkFile], {})} :
            /\ \/ key \in DOMAIN tc[ChunkFile]
               \/ Cardinality(DOMAIN tc[ChunkFile]) < MaxCached
            /\ \E r \in {getHeightFromChunk(tc, ChunkFile, p[1], p[2], bad)} :
                   /\ m_tileCache' = r.tc
                   /\ probe' = [op |-> "fetch", pixelX |-> p[1], pixelY |-> p[2],
                                key |-> key, fault |-> fault,
                                failed |-> (IF probe = NoProbe THEN {} ELSE probe.failed)
                                             \cup (IF r.ev.read = "fail" THEN {key} ELSE {})]
                   /\ result' = [val |-> r.val, ev |-> r.ev]
            /\ UNCHANGED <<m_isInitialized, m_currentWidth, m_currentHeight,
                           m_currentSteps, m_currentCenterX, m_currentCenterY,
                           m_currentTileFile, m_elevationData, unopenable, callVars, tileCacheVars>>

SpecChunkFaults == Init /\ [][FetchPixel]_vars

(***************************************************************************)
(* The first call on a fresh engine, at positions of tile 17 on, between   *)
(* and next to its pixel centres (columns 0..3, the tile centre, the east  *)
(* edge; rows 0, 4, 5 and the south edge) and in tile 25, whose file is    *)
(* missing.  A window on row 0 spills north into tile 25.                  *)
(***************************************************************************)
FirstLoadLons ==
    {j * (PixelDeg \div 2) + d : j \in 0..6, d \in {-1, 0, 1}}
        \cup {(45 * Deg) \div 2, 45 * Deg - PixelDeg \div 2, 45 * Deg - 1}

FirstLoadLats ==
    {15 * Deg + d : d \in {-1, 0, 1}}
        \cup {15 * Deg - PixelDeg \div 2 + d : d \in {-1, 0, 1}}
        \cup {30 * Deg, 2, MissingTileLat}

FirstLoadSizes ==
    {<<1, 1>>, <<MaxWidth, MaxHeight>>, <<2 * MaxWidth, MaxHeight>>,
     <<MaxWidth, 2 * MaxHeight>>}

FirstLoad ==
    /\ path = "init"
    /\ \E lat \in FirstLoadLats, lon \in FirstLoadLons, size \in FirstLoadSizes,
          steps \in Strides :
           Call(Args(lat, lon, size[1], size[2], steps), {})

SpecFirstLoad == Init /\ [][FirstLoad]_vars

(***************************************************************************)
(* First calls at the edge of the covered band: positions on the top rows  *)
(* of tiles 26 and 29 (30..60 N) and the bottom rows of tiles 2 and 5      *)
(* (60..30 S), whose windows spill beyond 60 degrees of latitude.          *)
(***************************************************************************)
BandEdgeLats ==
    {60 * Deg - k * PixelDeg : k \in 0..2} \cup {-60 * Deg + k * PixelDeg : k \in 0..2}

BandEdgeLons == {OtherTileLon, OtherTileLon + PixelDeg, 200 * Deg, 200 * Deg + PixelDeg}

\* the (width, height) pairs of the windows at the edge of the band
BandEdgeSizes ==
    {<<1, 1>>, <<MaxWidth, MaxHeight>>, <<MaxWidth, 2 * MaxHeight>>}

BandEdgeLoad ==
    /\ path = "init"
    /\ \E lat \in BandEdgeLats, lon \in BandEdgeLons, size \in BandEdgeSizes,
          steps \in Strides :
           Call(Args(lat, lon, size[1], size[2], steps), {})

SpecBandEdge == Init /\ [][BandEdgeLoad]_vars

(***************************************************************************)
(* TerrainTileCache: one-degree tiles of resolution x resolution samples,  *)
(* in metres, kept in a map with a recency list.  The files are read       *)
(* without faults.                                                         *)
(***************************************************************************)
MaxCachedTiles == 2

TileRequest(latStartDeg, lonStartDeg, resolution) ==
    [latStartDeg |-> latStartDeg, lonStartDeg |-> lonStartDeg,
     resolution |-> resolution]

\* std::lround of a number of degrees: nearest integer, halves away from zero
lround(x) == Round(x, Deg)

makeKey(request) ==
    [latDegStart |-> lround(request.latStartDeg),
     lonDegWrapped |-> (Fmod(lround(request.lonStartDeg), 360) + 360) % 360,
     resolution |-> request.resolution]

\* the list q of keys without the key k
RECURSIVE Without(_, _)
Without(q, k) ==
    IF q = <<>> THEN <<>>
    ELSE IF Head(q) = k THEN Without(Tail(q), k)
    ELSE <<Head(q)>> \o Without(Tail(q), k)

\* touch that leaves the recency list as it is
touch_Nothing(lruList, key) == lruList

\* the key is spliced to the front of the recency list
touch(lruList, key) == <<key>> \o Without(lruList, key)

\* evictIfNeeded that evicts only when the cache is over its capacity
RECURSIVE evictIfNeeded_WhenOver(_, _, _)
evictIfNeeded_WhenOver(cache, lruList, maxCachedTiles) ==
    IF Cardinality(DOMAIN cache) > maxCachedTiles /\ lruList # <<>>
    THEN evictIfNeeded_WhenOver(
             [k \in DOMAIN cache \ {lruList[Len(lruList)]} |-> cache[k]],
             SubSeq(lruList, 1, Len(lruList) - 1), maxCachedTiles)
    ELSE [cache |-> cache, lruList |-> lruList]

\* while the cache is full, the key at the back of the list is erased; in a
\* full cache the list is not empty
RECURSIVE evictIfNeeded(_, _, _)
evictIfNeeded(cache, lruList, maxCachedTiles) ==
    IF Cardinality(DOMAIN cache) >= maxCachedTiles /\ lruList # <<>>
    THEN evictIfNeeded(
             [k \in DOMAIN cache \ {lruList[Len(lruList)]} |-> cache[k]],
             SubSeq(lruList, 1, Len(lruList) - 1), maxCachedTiles)
    ELSE [cache |-> cache, lruList |-> lruList]

\* the file sampleHeight opens for (latDeg, lonDeg), NoTile if none
sampledFile(latDeg, lonDeg, streams, missing) ==
    LET meta == findTile(latDeg, lonDeg)
    IN  IF meta = NoTile THEN NoTile
        ELSE IF meta \in streams THEN meta
        ELSE IF meta \in missing THEN NoTile
        ELSE meta

\* metres at (latDeg, lonDeg)
sampleHeight(latDeg, lonDeg, streams, missing) ==
    Let(sampledFile(latDeg, lonDeg, streams, missing), LAMBDA f :
        IF f = NoTile THEN 0
        ELSE LET meta == tiles[f]
                 wrappedLon == wrapLongitude(lonDeg)
                 lonOffset == longitudeOffsetWithinTile(meta, wrappedLon)
                 clampedLat == Clamp(latDeg, meta.minLatitude, meta.maxLatitude)
                 pixelX == Clamp(Round(lonOffset * TILE_WIDTH, longitudeSpan(meta)),
                                 0, TILE_WIDTH - 1)
                 latOffset == meta.maxLatitude - clampedLat
                 pixelY == Clamp(Round(latOffset * TILE_HEIGHT,
                                       meta.maxLatitude - meta.minLatitude),
                                 0, TILE_HEIGHT - 1)
             IN  Raster(f, pixelX, pixelY) * 1000)

SeqMin(q) == CHOOSE v \in {q[i] : i \in DOMAIN q} : \A i \in DOMAIN q : v <= q[i]
SeqMax(q) == CHOOSE v \in {q[i] : i \in DOMAIN q} : \A i \in DOMAIN q : v >= q[i]

\* loadTile for a request of resolution >= 2
loadTile(request, streams, missing) ==
    IF findTile(request.latStartDeg + Deg \div 2, request.lonStartDeg + Deg \div 2) = NoTile
    THEN [ok |-> FALSE, streams |-> streams]
    ELSE LET n == request.resolution
             lat(r) == request.latStartDeg + (r * Deg) \div (n - 1)
             lon(c) == request.lonStartDeg + (c * Deg) \div (n - 1)
             opened == {sampledFile(lat(r), lon(c), streams, missing) :
                            r \in 0..(n - 1), c \in 0..(n - 1)} \ {NoTile}
         IN  Let([i \in 1..(n * n) |->
                     sampleHeight(lat((i - 1) \div n), lon((i - 1) % n),
                                  streams, missing)],
                 LAMBDA heights :
                     [ok |-> TRUE, streams |-> streams \cup opened,
                      sample |-> [heights |-> heights,
                                  minElevation |-> SeqMin(heights),
                                  maxElevation |-> SeqMax(heights),
                                  resolution |-> n]])

\* the pointer fetchTile returns: nullptr, or the sample of a cache entry
NullSample == [ok |-> FALSE]

fetchTile(cache, lruList, streams, maxCachedTiles, request, missing) ==
    IF request.resolution <= 1
    THEN [cache |-> cache, lruList |-> lruList, streams |-> streams,
          ret |-> NullSample, hit |-> FALSE]
    ELSE LET key == makeKey(request)
         IN  IF key \in DOMAIN cache
             THEN [cache |-> cache, lruList |-> touch(lruList, key),
                   streams |-> streams,
                   ret |-> [ok |-> TRUE, data |-> cache[key]], hit |-> TRUE]
             ELSE Let(loadTile(request, streams, missing), LAMBDA loaded :
                      IF ~loaded.ok
                      THEN [cache |-> cache, lruList |-> lruList, streams |-> streams,
                            ret |-> NullSample, hit |-> FALSE]
                      ELSE Let(evictIfNeeded(cache, lruList, maxCachedTiles),
                               LAMBDA kept :
                                   [cache |-> (key :> loaded.sample) @@ kept.cache,
                                    lruList |-> <<key>> \o kept.lruList,
                                    streams |-> loaded.streams,
                                    ret |-> [ok |-> TRUE, data |-> loaded.sample],
                                    hit |-> FALSE]))

\* requests on tile 17 whose start longitudes round to the same degree, a
\* request a whole turn east, requests outside the covered band, and
\* resolutions from 1 on
TileLats == {10 * Deg, 75 * Deg}
TileLons == {(16 * Deg) \div 10, (24 * Deg) \div 10, 370 * Deg}
TileResolutions == 1..3

TileRequests ==
    {TileRequest(lat, lon, n) : lat \in TileLats, lon \in TileLons,
                                n \in TileResolutions}

\* the constructor: TerrainTileCache(dataRoot, maxCachedTiles)
Construct ==
    /\ maxCachedTiles_ = 0
    /\ \E maxCachedTiles \in 0..MaxCachedTiles :
           maxCachedTiles_' = IF maxCachedTiles < 1 THEN 1 ELSE maxCachedTiles
    /\ UNCHANGED <<engVars, unopenable, callVars, probe, result,
                   cache_, lruList_, streams_>>

\* the keys fetched since construction or the last clear, latest first
Fetched == IF probe.op \in {"fetchTile", "clear"} THEN probe.fetched ELSE <<>>

\* the keys inserted since construction or the last clear, latest first
Inserted == IF probe.op \in {"fetchTile", "clear"} THEN probe.inserted ELSE <<>>

FetchTile ==
    /\ maxCachedTiles_ > 0
    /\ \E request \in TileRequests :
         \E r \in {fetchTile(cache_, lruList_, streams_, maxCachedTiles_,
                             request, unopenable)} :
             /\ cache_' = r.cache
             /\ lruList_' = r.lruList
             /\ streams_' = r.streams
             /\ probe' = [op |-> "fetchTile", request |-> request,
                          key |-> makeKey(request), hit |-> r.hit,
                          evicted |-> DOMAIN cache_ \ DOMAIN r.cache,
                          fetched |->
                              IF r.ret.ok
                              THEN <<makeKey(request)>> \o
                                   Without(Fetched, makeKey(request))
                              ELSE Fetched,
                          inserted |->
                              IF r.ret.ok /\ ~r.hit
                              THEN <<makeKey(request)>> \o
                                   Without(Inserted, makeKey(request))
                              ELSE Inserted]
             /\ result' = r.ret
    /\ UNCHANGED <<engVars, unopenable, callVars, maxCachedTiles_>>

ClearTiles ==
    /\ maxCachedTiles_ > 0
    /\ cache_ # EmptyMap
    /\ cache_' = EmptyMap
    /\ lruList_' = <<>>
    /\ probe' = [op |-> "clear", fetched |-> <<>>, inserted |-> <<>>]
    /\ result' = NullSample
    /\ UNCHANGED <<engVars, unopenable, callVars, maxCachedTiles_, streams_>>

NextTileCache == Construct \/ FetchTile \/ ClearTiles

SpecTileCache == Init /\ [][NextTileCache]_vars

(***************************************************************************)
(* Properties.  In a step, the unprimed engine variables are the member    *)
(* state the call found, call' its arguments, and ret', path', gridShift'  *)
(* and log' what it did.                                                   *)
(***************************************************************************)
LoadPaths == {"full", "scroll", "scroll_full", "noop"}

ValidArgs(c) == c.width > 0 /\ c.height > 0 /\ c.steps > 0

ResolvesTile(c) == findTile(c.lat, c.lon) # NoTile

\* C1: a call whose centre resolves to a tile takes the full-load path iff
\* the engine is uninitialized or the requested width, height, stride or
\* resolved backing tile differs from the stored window state, and takes
\* the scroll-load path in every other case.
C1_FullLoadIffStateDiffers ==
    [][ResolvesTile(call') =>
           LET differs ==
                   \/ ~m_isInitialized
                   \/ call'.width # m_currentWidth
                   \/ call'.height # m_currentHeight
                   \/ call'.steps # m_currentSteps
                   \/ tiles[findTile(call'.lat, call'.lon)].filename # m_currentTileFile
           IN  /\ differs => path' \in {"full", "openfail"}
               /\ ~differs => path' \in {"scroll", "scroll_full", "noop", "scroll_openfail"}]_vars

\* a scroll load changed the buffer of an initialized engine
C1_Witness ==
    /\ path = "scroll"
    /\ call.width = MaxWidth /\ call.steps = MaxSteps
    /\ gridShift # <<0, 0>>

\* the window state: buffer, centre pixel, width, height, stride, backing tile
windowVars == <<m_isInitialized, m_elevationData, m_currentCenterX, m_currentCenterY,
                m_currentWidth, m_currentHeight, m_currentSteps, m_currentTileFile>>

\* C2: when the requested centre resolves to no tile, an uninitialized
\* engine returns an empty buffer and stays uninitialized; an initialized
\* engine returns the same height values the previous call returned and no
\* field of the window state changes.
C2_NoTileReturnsPreviousBuffer ==
    [][~ResolvesTile(call') =>
           IF ~m_isInitialized
           THEN ret' = <<>> /\ ~m_isInitialized'
           ELSE ret' = ret /\ UNCHANGED windowVars]_vars

\* C3: a second call with the arguments of the call before it (valid, no
\* read faults) returns the buffer that call returned.
C3_RepeatedCallReturnsSameBuffer ==
    [][(ValidArgs(call') /\ call' = call /\ call'.bad = {}) => ret' = ret]_vars

\* the arguments that put the ideal centre on pixel (centerX, centerY) of tile t
CenterArgs(t, centerX, centerY, width, height, steps) ==
    Args(tiles[t].maxLatitude - centerY * ((tiles[t].maxLatitude - tiles[t].minLatitude)
                                              \div TILE_HEIGHT),
         tiles[t].minLongitude + centerX * (longitudeSpan(tiles[t]) \div TILE_WIDTH),
         width, height, steps)

\* the buffer of a full load of tile t centred on pixel (centerX, centerY),
\* by an engine that has loaded nothing, with every file readable
FullLoadAt(t, centerX, centerY, width, height, steps) ==
    doFullLoad([Engine EXCEPT !.m_isInitialized = FALSE, !.m_elevationData = <<>>,
                              !.m_tileCache = EmptyMap],
               CenterArgs(t, centerX, centerY, width, height, steps), t,
               [unopenable |-> {}, bad |-> {}]).eng.m_elevationData

\* every pixel the window samples is on the primary tile
WindowInside(centerX, centerY, width, height, steps) ==
    \A x \in 0..(width - 1), row \in 0..(height - 1) :
        insidePrimaryTile(centerX - CDiv(width * steps, 2) + x * steps,
                          centerY - CDiv(height * steps, 2) + row * steps)

\* C4: for a window that stays inside one tile and a buffer that a full
\* load at the stored centre produces, a scroll load of (dx, dy) grid cells
\* leaves, on every cell of the overlap region, the value a full load at
\* the shifted centre (old centre + (dx, dy) * stride) produces.
C4_ScrollEqualsFullLoadOnOverlap ==
    [][(/\ path' = "scroll"
        /\ WindowInside(m_currentCenterX, m_currentCenterY,
                        m_currentWidth, m_currentHeight, m_currentSteps)
        /\ WindowInside(m_currentCenterX + gridShift'[1] * m_currentSteps,
                        m_currentCenterY + gridShift'[2] * m_currentSteps,
                        m_currentWidth, m_currentHeight, m_currentSteps)
        /\ m_elevationData = FullLoadAt(findTile(call'.lat, call'.lon),
                                        m_currentCenterX, m_currentCenterY,
                                        m_currentWidth, m_currentHeight, m_currentSteps))
       => LET w == m_currentWidth
              h == m_currentHeight
              dx == gridShift'[1]
              dy == gridShift'[2]
              full == FullLoadAt(findTile(call'.lat, call'.lon),
                                 m_currentCenterX + dx * m_currentSteps,
                                 m_currentCenterY + dy * m_currentSteps,
                                 w, h, m_currentSteps)
          IN  /\ Len(m_elevationData') = w * h
              /\ \A x \in 0..(w - 1), y \in 0..(h - 1) :
                     (x + dx \in 0..(w - 1) /\ y + dy \in 0..(h - 1))
                         => m_elevationData'[y * w + x + 1] = full[y * w + x + 1]]_vars

\* a scroll by a column moved a window that lies inside tile 17 and kept a
\* column of the old buffer
C4_Witness ==
    /\ path = "scroll"
    /\ gridShift[1] # 0
    /\ m_currentWidth = MaxWidth
    /\ WindowInside(m_currentCenterX, m_currentCenterY,
                    m_currentWidth, m_currentHeight, m_currentSteps)
    /\ WindowInside(m_currentCenterX - gridShift[1] * m_currentSteps,
                    m_currentCenterY - gridShift[2] * m_currentSteps,
                    m_currentWidth, m_currentHeight, m_currentSteps)
    /\ m_elevationData = FullLoadAt(m_currentTileFile, m_currentCenterX, m_currentCenterY,
                                    m_currentWidth, m_currentHeight, m_currentSteps)

\* C5: every value of a non-empty returned buffer is in metres, exactly
\* 1000 times the kilometre sample the engine holds for that cell, whatever
\* path the call took.
C5_ReturnedValuesAreMeters ==
    ret # <<>> =>
        /\ Len(ret) = Len(m_elevationData)
        /\ \A i \in 1..Len(ret) : ret[i] = 1000 * m_elevationData[i]

\* C6 as stated: a call returns an empty buffer or exactly width * height
\* entries for the width and height passed to it.
C6_ReturnsPassedSizeOrEmpty ==
    path # "init" => (ret = <<>> \/ Len(ret) = call.width * call.height)

\* C6: a call returns an empty buffer or exactly as many entries as the
\* stored window (m_currentWidth * m_currentHeight) has; the stored width
\* and height are the ones passed to the call whenever it took a load path
\* (full load, scroll load, no-op).
C6_ReturnsStoredSizeOrEmpty ==
    path # "init" =>
        /\ ret = <<>> \/ Len(ret) = m_currentWidth * m_currentHeight
        /\ path \in LoadPaths =>
               /\ m_currentWidth = call.width /\ m_currentHeight = call.height
               /\ Len(ret) = call.width * call.height
        /\ (path \notin LoadPaths /\ ~m_isInitialized) => ret = <<>>

\* a call that resolved no tile handed back the buffer of an older, larger window
C6_Witness ==
    /\ path = "notile"
    /\ Len(ret) = MaxWidth * MaxHeight
    /\ call.width = 1 /\ call.height = 1

\* C7: a call with stride <= 0, width <= 0 or height <= 0 performs no load
\* and leaves the window state unchanged.
C7_InvalidArgumentsLoadNothing ==
    [][~ValidArgs(call') =>
           /\ path' \notin LoadPaths
           /\ log' = <<>>
           /\ UNCHANGED windowVars]_vars

\* C8: whenever loadOrUpdateTerrain has returned, the decoded-chunk cache
\* of every Chunk Store entry is empty, whichever path the call took and
\* however many tiles the load touched.
C8_ChunkCachesEmptyAfterCall ==
    \A f \in DOMAIN m_tileCache : m_tileCache[f] = EmptyMap

\* a scroll load read chunks of the primary tile and of a neighbouring tile
C8_Witness ==
    /\ path = "scroll"
    /\ \E j, k \in 1..Len(log) :
           /\ log[j].read = "ok" /\ log[k].read = "ok"
           /\ log[j].file = m_currentTileFile /\ log[k].file # m_currentTileFile
           /\ {log[j].file, log[k].file} \subseteq DOMAIN m_tileCache

CellsInChunks(events, bad) ==
    {events[k].cell : k \in {j \in 1..Len(events) :
        /\ events[j].read \in {"ok", "hit", "fail"}
        /\ <<events[j].file, events[j].pixelX \div CHUNK_SIZE,
             events[j].pixelY \div CHUNK_SIZE>> \in bad}}

\* C10: when the reads of one chunk fail during a load, exactly the samples
\* that fall in that chunk are 0.0, every other cell holds the value the
\* same call leaves there when no read fails, the load completes, and the
\* window state is the one the fault-free call leaves.
C10_FailedChunkZeroesOnlyItsSamples ==
    [][(call'.bad # {} /\ path' \in {"full", "scroll", "scroll_full"}) =>
           LET a == Args(call'.lat, call'.lon, call'.width, call'.height, call'.steps)
               ok == CHOOSE r \in loadOrUpdateTerrain(Engine, a, Env({})) : TRUE
               failed == CellsInChunks(log', call'.bad)
           IN  /\ path' = ok.path
               /\ Len(m_elevationData') = Len(ok.eng.m_elevationData)
               /\ \A i \in 1..Len(m_elevationData') :
                      m_elevationData'[i] =
                          IF i - 1 \in failed THEN 0 ELSE ok.eng.m_elevationData[i]
               /\ m_isInitialized' = ok.eng.m_isInitialized
               /\ m_currentWidth' = ok.eng.m_currentWidth
               /\ m_currentHeight' = ok.eng.m_currentHeight
               /\ m_currentSteps' = ok.eng.m_currentSteps
               /\ m_currentCenterX' = ok.eng.m_currentCenterX
               /\ m_currentCenterY' = ok.eng.m_currentCenterY
               /\ m_currentTileFile' = ok.eng.m_currentTileFile]_vars

\* a scroll load lost the samples of the failing chunk and read the others
C10_Witness ==
    /\ call.bad # {}
    /\ path = "scroll"
    /\ m_currentWidth = call.width /\ m_currentHeight = call.height
    /\ \E j, k \in 1..Len(log) :
           /\ log[j].read = "fail" /\ m_elevationData[log[j].cell + 1] = 0
           /\ log[k].read = "ok"
           /\ m_elevationData[log[k].cell + 1]
                  = Raster(log[k].file, log[k].pixelX, log[k].pixelY)

\* a longitude brought into [0, 360) degrees
Wrapped(lon) == lon % (360 * Deg)

\* the tiles of the table whose latitude range, widened by 1e-6 degree, and
\* longitude range contain (lat, wrapped longitude w)
Containing(lat, w) ==
    {i \in 1..Len(tiles) :
        /\ lat >= tiles[i].minLatitude - 1 /\ lat <= tiles[i].maxLatitude + 1
        /\ IF tiles[i].minLongitude <= tiles[i].maxLongitude
           THEN w >= tiles[i].minLongitude /\ w <= tiles[i].maxLongitude
           ELSE w >= tiles[i].minLongitude \/ w <= tiles[i].maxLongitude}

\* C12: findTile returns none exactly when lat is outside [-60, +60]
\* degrees; for an in-band lat and any lon it returns the first tile in
\* table order whose widened latitude range and longitude range contain
\* (lat, lon wrapped into [0, 360)).
C12_FindTileFirstContainingTile ==
    probe.op = "findTile" =>
        /\ result = NoTile <=> (probe.lat < -60 * Deg \/ probe.lat > 60 * Deg)
        /\ (probe.lat >= -60 * Deg /\ probe.lat <= 60 * Deg) =>
               /\ result \in Containing(probe.lat, Wrapped(probe.lon))
               /\ \A i \in Containing(probe.lat, Wrapped(probe.lon)) : result <= i

\* a negative longitude on a corner shared by four tiles resolved to the first
C12_Witness ==
    /\ probe.op = "findTile"
    /\ probe.lon < 0
    /\ Cardinality(Containing(probe.lat, Wrapped(probe.lon))) = 4
    /\ result # NoTile

LatBands(lat) ==
    1 + Cardinality({b \in {-30 * Deg, 0, 30 * Deg} : lat - b \in -1..1})

LonBands(w) ==
    1 + Cardinality({k \in 1..7 : w = k * 45 * Deg})

\* C14 as stated: every point of the band is in exactly one tile under the
\* test findTile uses, tile boundaries included.
C14_ExactlyOneTileContains ==
    (probe.op = "findTile" /\ probe.lat >= -60 * Deg /\ probe.lat <= 60 * Deg) =>
        Cardinality({i \in 1..Len(tiles) :
                        TileMatches(i, probe.lat, wrapLongitude(probe.lon))}) = 1

\* C14: every point of the band is in at least one tile under the test
\* findTile uses; it is in exactly one unless its latitude is within 1e-6
\* degree of an inner band boundary (-30, 0, 30) or its wrapped longitude is
\* an inner tile boundary (45, 90, .., 315), where two tiles (four on a
\* corner) contain it.
C14_TilesCoverBandOverlapOnBoundaries ==
    (probe.op = "findTile" /\ probe.lat >= -60 * Deg /\ probe.lat <= 60 * Deg) =>
        Cardinality({i \in 1..Len(tiles) :
                        TileMatches(i, probe.lat, wrapLongitude(probe.lon))})
            = LatBands(probe.lat) * LonBands(Wrapped(probe.lon))

\* a point 1e-6 degree from a band boundary and on a tile boundary is in four tiles
C14_Witness ==
    /\ probe.op = "findTile"
    /\ probe.lat = 30 * Deg + 1
    /\ Wrapped(probe.lon) = 45 * Deg
    /\ Cardinality({i \in 1..Len(tiles) :
                       TileMatches(i, probe.lat, wrapLongitude(probe.lon))}) = 4

\* C15: the height lookup at absolute pixel (x, y) returns the sample of
\* raster pixel (x, y), for every pixel of the tile: it uses chunk
\* (x div CHUNK_SIZE, y div CHUNK_SIZE), whose floats start at float
\* (chunkY * NUM_CHUNKS_X + chunkX) * CHUNK_SIZE^2 of the file, at index
\* (y mod CHUNK_SIZE) * CHUNK_SIZE + (x mod CHUNK_SIZE).
C15_LookupReturnsRasterPixel ==
    probe.op = "getHeightFromChunk" =>
        LET x == probe.pixelX
            y == probe.pixelY
            cx == x \div CHUNK_SIZE
            cy == y \div CHUNK_SIZE
            idx == (y % CHUNK_SIZE) * CHUNK_SIZE + (x % CHUNK_SIZE)
        IN  /\ result.val = Raster(probe.file, x, y)
            /\ result.val = FileSample(probe.file,
                                       (cy * NUM_CHUNKS_X + cx) * CHUNK_SIZE * CHUNK_SIZE + idx)
            /\ result.ev.chunkX = cx /\ result.ev.chunkY = cy
            /\ result.ev.inner = idx
            /\ result.ev.read \in {"ok", "hit"}

\* the last pixel of the last chunk was read from the file
C15_Witness ==
    /\ probe.op = "getHeightFromChunk"
    /\ probe.pixelX = TILE_WIDTH - 1 /\ probe.pixelY = TILE_HEIGHT - 1
    /\ result.ev.chunkX = NUM_CHUNKS_X - 1 /\ result.ev.chunkY = NUM_CHUNKS_Y - 1
    /\ result.ev.read = "ok"
    /\ result.val = Raster(probe.file, TILE_WIDTH - 1, TILE_HEIGHT - 1)

\* C11 as stated: when a backing file cannot be opened during a load, the
\* samples that would come from it are 0.0 and the rest of the window
\* loads, whether the file is the primary tile's or a neighbour's.
C11_UnopenableFileIsNoData ==
    (path # "init" /\ ValidArgs(call) /\ ResolvesTile(call)) =>
        /\ path \in LoadPaths
        /\ Len(m_elevationData) = call.width * call.height
        /\ \A k \in 1..Len(log) :
               m_elevationData[log[k].cell + 1] =
                   IF log[k].file \in unopenable THEN 0
                   ELSE Raster(log[k].file, log[k].pixelX, log[k].pixelY)

\* the integer nearest to n / d (d > 0), an exact half going away from zero
NearestHalfAway(n, d) ==
    CHOOSE c \in (n \div d - 1)..(n \div d + 1) :
        \/ 2 * Abs(n - c * d) < d
        \/ 2 * Abs(n - c * d) = d /\ Abs(c * d) > Abs(n)

\* the pixel of tile t that is the centre of a request at (lat, lon)
CenterPixel(t, lat, lon) ==
    LET tile == tiles[t]
        lo == IF Wrapped(lon) < tile.minLongitude THEN tile.minLongitude
              ELSE IF Wrapped(lon) > tile.maxLongitude THEN tile.maxLongitude
              ELSE Wrapped(lon)
        la == IF lat < tile.minLatitude THEN tile.minLatitude
              ELSE IF lat > tile.maxLatitude THEN tile.maxLatitude ELSE lat
        cx == NearestHalfAway((lo - tile.minLongitude) * TILE_WIDTH,
                              tile.maxLongitude - tile.minLongitude)
        cy == NearestHalfAway((tile.maxLatitude - la) * TILE_HEIGHT,
                              tile.maxLatitude - tile.minLatitude)
    IN  <<IF cx > TILE_WIDTH - 1 THEN TILE_WIDTH - 1 ELSE IF cx < 0 THEN 0 ELSE cx,
          IF cy > TILE_HEIGHT - 1 THEN TILE_HEIGHT - 1 ELSE IF cy < 0 THEN 0 ELSE cy>>

\* C16: a full load fills output cell (row, x) with the sample of source
\* pixel (centerX - floor(width * stride / 2) + x * stride,
\*        centerY - floor(height * stride / 2) + row * stride),
\* (centerX, centerY) being the requested position in pixels of the
\* resolved tile, rounded half away from zero and clamped into the raster.
C16_FullLoadSamplesWindowAroundCenter ==
    (path = "full" /\ ValidArgs(call)) =>
        LET c == CenterPixel(findTile(call.lat, call.lon), call.lat, call.lon)
            w == call.width
            h == call.height
            s == call.steps
        IN  /\ m_currentCenterX = c[1] /\ m_currentCenterY = c[2]
            /\ Len(m_elevationData) = w * h /\ Len(log) = w * h
            /\ \A row \in 0..(h - 1), x \in 0..(w - 1) :
                   LET e == log[row * w + x + 1]
                       srcX == c[1] - ((w * s) \div 2) + x * s
                       srcY == c[2] - ((h * s) \div 2) + row * s
                   IN  /\ e.cell = row * w + x
                       /\ e.srcX = srcX /\ e.srcY = srcY
                       /\ (srcX \in 0..(TILE_WIDTH - 1) /\ srcY \in 0..(TILE_HEIGHT - 1))
                              => m_elevationData[row * w + x + 1]
                                     = Raster(m_currentTileFile, srcX, srcY)

\* a request of 2 MaxWidth x MaxHeight cells at stride 1 at the centre of
\* tile 17 was loaded around the tile's centre pixel
C16_Witness ==
    /\ path = "full"
    /\ call.lat = 15 * Deg /\ call.lon = (45 * Deg) \div 2
    /\ call.width = 2 * MaxWidth /\ call.height = MaxHeight /\ call.steps = 1
    /\ m_currentCenterX = TILE_WIDTH \div 2 /\ m_currentCenterY = TILE_HEIGHT \div 2
    /\ m_elevationData[1] = Raster(17, TILE_WIDTH \div 2 - MaxWidth,
                                   TILE_HEIGHT \div 2 - MaxHeight \div 2)

\* C17: in a scroll load with grid shift (sx, sy), |sx| < width and
\* |sy| < height, output cell (x, row) is copied from old cell
\* (x + sx, row + sy) exactly when that cell lies inside the old buffer and
\* is fetched from the source otherwise; (width - |sx|) * (height - |sy|)
\* cells are reused and no reused cell causes a read.
C17_ScrollReusesOverlap ==
    [][(path' = "scroll" /\ ValidArgs(call')) =>
          LET w == call'.width
              h == call'.height
              s == call'.steps
              sx == gridShift'[1]
              sy == gridShift'[2]
              InOld(x, row) == /\ x + sx >= 0 /\ x + sx < w
                               /\ row + sy >= 0 /\ row + sy < h
              fetched == {log'[k].cell : k \in 1..Len(log')}
              reusedCells == {c \in 0..(w * h - 1) : InOld(c % w, c \div w)}
          IN  /\ Abs(sx) < w /\ Abs(sy) < h
              /\ Len(m_elevationData) = w * h /\ Len(m_elevationData') = w * h
              /\ \A c \in reusedCells :
                     /\ m_elevationData'[c + 1] =
                            m_elevationData[(c \div w + sy) * w + (c % w) + sx + 1]
                     /\ c \notin fetched
              /\ \A c \in (0..(w * h - 1)) \ reusedCells : c \in fetched
              /\ \A k \in 1..Len(log') :
                     /\ log'[k].srcX = m_currentCenterX + sx * s - ((w * s) \div 2)
                                           + (log'[k].cell % w) * s
                     /\ log'[k].srcY = m_currentCenterY + sy * s - ((h * s) \div 2)
                                           + (log'[k].cell \div w) * s
              /\ Cardinality(reusedCells) = (w - Abs(sx)) * (h - Abs(sy))
              /\ Len(log') = w * h - (w - Abs(sx)) * (h - Abs(sy))]_vars

\* a window of MaxWidth columns scrolled by one column and no row: all but
\* one column were kept and only that column was fetched
C17_Witness ==
    /\ path = "scroll" /\ ValidArgs(call)
    /\ call.width = MaxWidth /\ call.height = MaxHeight
    /\ gridShift = <<1, 0>>
    /\ Len(log) = MaxHeight
    /\ \A k \in 1..Len(log) : log[k].cell % MaxWidth = MaxWidth - 1

\* the paths of a call that computed a grid shift
ScrollPaths == {"scroll", "noop", "scroll_full", "scroll_openfail"}

\* C20: on the scroll path each grid-shift component equals the pixel delta
\* between the new ideal centre and the stored centre, divided by the stride
\* and rounded to the nearest integer, exact halves away from zero.
C20_GridShiftRoundsHalfAwayFromZero ==
    [][(path' \in ScrollPaths /\ ValidArgs(call')) =>
          LET ideal == CenterPixel(findTile(call'.lat, call'.lon), call'.lat, call'.lon)
              s == call'.steps
          IN  /\ gridShift'[1] = NearestHalfAway(ideal[1] - m_currentCenterX, s)
              /\ gridShift'[2] = NearestHalfAway(ideal[2] - m_currentCenterY, s)
              /\ (2 * (ideal[1] - m_currentCenterX) = s) => gridShift'[1] = 1
              /\ (2 * (ideal[1] - m_currentCenterX) = -s) => gridShift'[1] = -1
              /\ (2 * (ideal[2] - m_currentCenterY) = s) => gridShift'[2] = 1
              /\ (2 * (ideal[2] - m_currentCenterY) = -s) => gridShift'[2] = -1]_vars

\* a scroll at stride 2 whose ideal centre was one pixel to the left of the
\* stored centre (half a grid cell) shifted the window by -1
C20_Witness ==
    /\ path = "scroll" /\ ValidArgs(call) /\ call.steps = 2
    /\ gridShift[1] = -1
    /\ LET ideal == CenterPixel(findTile(call.lat, call.lon), call.lat, call.lon)
       IN  ideal[1] - (m_currentCenterX - gridShift[1] * call.steps) = -1

\* the samples of the window of width x height cells at stride steps whose
\* centre is pixel (centerX, centerY) of tile t, every file readable
WindowAt(t, centerX, centerY, width, height, steps) ==
    LET tile == tiles[t]
        n == width * height
        v == [degPerPixelX |-> longitudeSpan(tile) \div TILE_WIDTH,
              degPerPixelY |-> (tile.maxLatitude - tile.minLatitude) \div TILE_HEIGHT]
        p == LoadParams(tile, v, centerX - CDiv(width * steps, 2),
                        centerY - CDiv(height * steps, 2),
                        Args(0, 0, width, height, steps), 0..(n - 1),
                        [unopenable |-> {}, bad |-> {}])
    IN  LoadCells(0, [data |-> [i \in 1..n |-> 0],
                      tc |-> ensureTileStream(EmptyMap, tile, {}),
                      log |-> <<>>], p).data

\* C19: after any sequence of fault-free calls the buffer is consistent
\* with the bookkeeping: cell (row, x) holds the sample of source pixel
\* (centerX - floor(width * stride / 2) + x * stride,
\*  centerY - floor(height * stride / 2) + row * stride) of the stored tile
\* for the stored centre, width, height and stride, on every cell.
C19_BufferMatchesBookkeeping ==
    m_isInitialized =>
        LET w == m_currentWidth
            h == m_currentHeight
            s == m_currentSteps
        IN  /\ m_elevationData = WindowAt(m_currentTileFile, m_currentCenterX,
                                          m_currentCenterY, w, h, s)
            /\ \A row \in 0..(h - 1), x \in 0..(w - 1) :
                   LET srcX == m_currentCenterX - ((w * s) \div 2) + x * s
                       srcY == m_currentCenterY - ((h * s) \div 2) + row * s
                   IN  (srcX \in 0..(TILE_WIDTH - 1) /\ srcY \in 0..(TILE_HEIGHT - 1))
                           => m_elevationData[row * w + x + 1]
                                  = Raster(m_currentTileFile, srcX, srcY)

\* a scroll moved a window of MaxWidth columns by a column and fetched the
\* cells outside the overlap, one of them beyond the edge of the tile
C19_Witness ==
    /\ path = "scroll" /\ gridShift[1] # 0
    /\ m_currentWidth = MaxWidth
    /\ \E k \in 1..Len(log) : ~log[k].inside
    /\ \E k \in 1..Len(log) : log[k].inside

C21_ScrollMovesCenterByWholeStrides ==
    [][(ValidArgs(call') /\ m_isInitialized /\ path' \notin {"full", "scroll_full"}) =>
          /\ m_currentSteps' = m_currentSteps
          /\ IF path' \in ScrollPaths
             THEN /\ call'.steps = m_currentSteps
                  /\ (m_currentCenterX' - m_currentCenterX) % call'.steps = 0
                  /\ (m_currentCenterY' - m_currentCenterY) % call'.steps = 0
             ELSE /\ m_currentCenterX' = m_currentCenterX
                  /\ m_currentCenterY' = m_currentCenterY
          /\ (path' = "scroll" =>
                 /\ m_currentCenterX' = m_currentCenterX + gridShift'[1] * call'.steps
                 /\ m_currentCenterY' = m_currentCenterY + gridShift'[2] * call'.steps)]_vars

\* a scroll at stride 2 left the stored centre one pixel away from the ideal
\* centre of the request
C21_Witness ==
    /\ path = "scroll" /\ ValidArgs(call) /\ call.steps = 2
    /\ gridShift[1] # 0
    /\ LET ideal == CenterPixel(findTile(call.lat, call.lon), call.lat, call.lon)
       IN  Abs(ideal[1] - m_currentCenterX) = 1

\* C22: after every successful call the stored centre pixel differs, in
\* each axis, from the ideal centre pixel of the position just requested by
\* at most stride / 2, however many small moves preceded the call.
C22_StoredCenterWithinHalfStride ==
    (path \in LoadPaths /\ ValidArgs(call)) =>
        LET ideal == CenterPixel(findTile(call.lat, call.lon), call.lat, call.lon)
        IN  /\ 2 * Abs(ideal[1] - m_currentCenterX) <= call.steps
            /\ 2 * Abs(ideal[2] - m_currentCenterY) <= call.steps

\* a move of one pixel at a stride of more than two pixels was a no-op and
\* left the stored centre one pixel away from the ideal centre
C22_Witness ==
    /\ path = "noop" /\ ValidArgs(call) /\ call.steps > 2
    /\ LET ideal == CenterPixel(findTile(call.lat, call.lon), call.lat, call.lon)
       IN  Abs(ideal[1] - m_currentCenterX) = 1

\* C23 as stated: if the same valid arguments are passed on every call from
\* some point on, the engine eventually takes the no-op path and its stored
\* centre and buffer never change again.  The engine is deterministic, so
\* with fixed arguments it can only come back to a window it held earlier by
\* staying on the no-op path: a repeated call that arrives at the window of
\* the first call by any other path starts the same calls over, for ever.
C23_RepeatedCallsReachNoOp ==
    (/\ probe.op = "repeat" /\ probe.n > 0
     /\ probe.first = Window(m_currentCenterX, m_currentCenterY, m_elevationData))
        => path = "noop"

\* C24 as stated: when both grid-shift components are zero the call reads
\* no file, changes no field of the window state and returns the same
\* values as the previous call.
C24_NoOpChangesNothing ==
    [][(path' = "noop" /\ ValidArgs(call')) =>
          /\ log' = <<>>
          /\ UNCHANGED engVars
          /\ ret' = ret]_vars

\* C25: on the scroll path, if |shiftX| >= width or |shiftY| >= height the
\* engine performs a full load instead: no old sample is reused, every cell
\* is fetched afresh, and the stored centre becomes the ideal centre of the
\* request.
C25_LargeShiftFallsBackToFullLoad ==
    (ValidArgs(call) /\ path \in ScrollPaths) =>
        LET w == call.width
            h == call.height
            ideal == CenterPixel(findTile(call.lat, call.lon), call.lat, call.lon)
        IN  /\ path = "scroll_full"
                <=> (Abs(gridShift[1]) >= w \/ Abs(gridShift[2]) >= h)
            /\ path = "scroll_full" =>
                   /\ Len(log) = w * h
                   /\ \A c \in 0..(w * h - 1) : log[c + 1].cell = c
                   /\ m_currentCenterX = ideal[1] /\ m_currentCenterY = ideal[2]
                   /\ call.bad = {} =>
                          m_elevationData = WindowAt(m_currentTileFile, ideal[1], ideal[2],
                                                     w, h, call.steps)

\* a window one column wide was moved by one column at stride 2: the grid
\* shift was 1, nothing overlapped and the window was loaded in full
C25_Witness ==
    /\ path = "scroll_full" /\ ValidArgs(call)
    /\ call.width = 1 /\ call.steps = 2
    /\ Abs(gridShift[1]) = 1
    /\ Len(log) = call.height

\* C26 as stated: the engine starts uninitialized, becomes initialized
\* exactly when a full load completes and records centre pixel, width,
\* height, stride and backing tile, and never returns to uninitialized; once
\* initialized, every later call with valid arguments returns a non-empty
\* buffer.
C26_InitializedOnceAndReturnsData ==
    /\ ~m_isInitialized
    /\ [][/\ m_isInitialized => m_isInitialized'
          /\ (~m_isInitialized /\ m_isInitialized') => path' = "full"
          /\ path' \in {"full", "scroll_full"} =>
                 /\ m_isInitialized'
                 /\ m_currentWidth' = call'.width /\ m_currentHeight' = call'.height
                 /\ m_currentSteps' = call'.steps
                 /\ m_currentTileFile' = findTile(call'.lat, call'.lon)
          /\ (m_isInitialized /\ ValidArgs(call')) => ret' # <<>>]_vars

\* the tile and pixel that continue tile t at source pixel (srcX, srcY)
\* beyond its edge: the table holds four latitude bands of eight tiles,
\* south to north, each band west to east from longitude 0; file 0 where no
\* band continues the tile
NeighbourPixel(t, srcX, srcY) ==
    LET latBand == (t - 1) \div 8
        lonBand == (t - 1) % 8
        east == IF srcX < 0 THEN -1 ELSE IF srcX >= TILE_WIDTH THEN 1 ELSE 0
        north == IF srcY < 0 THEN 1 ELSE IF srcY >= TILE_HEIGHT THEN -1 ELSE 0
    IN  IF latBand + north \notin 0..3
        THEN [file |-> 0, pixelX |-> 0, pixelY |-> 0]
        ELSE [file |-> (latBand + north) * 8 + ((lonBand + east) % 8) + 1,
              pixelX |-> srcX - east * TILE_WIDTH,
              pixelY |-> srcY + north * TILE_HEIGHT]

\* C27 as stated: a sample whose source pixel lies k >= 0 columns past the
\* east edge (srcX = TILE_WIDTH + k) is read from column k of the eastern
\* neighbour at the same row, one at srcX = -k (k >= 1) from column
\* TILE_WIDTH - k of the western neighbour, and likewise across the north
\* and south edges: no source column or row is duplicated or skipped.
C27_SpilledSamplesContinueInNeighbour ==
    (path = "full" /\ ValidArgs(call)) =>
        \A k \in 1..Len(log) :
            LET e == log[k]
                n == NeighbourPixel(m_currentTileFile, e.srcX, e.srcY)
            IN  (~e.inside /\ n.file # 0 /\ n.file \notin unopenable) =>
                    /\ e.file = n.file
                    /\ e.pixelX = n.pixelX /\ e.pixelY = n.pixelY
                    /\ m_elevationData[e.cell + 1] = Raster(n.file, n.pixelX, n.pixelY)

\* the latitude the loading loop computes for source row srcY of tile t
SampleLat(t, srcY) ==
    tiles[t].maxLatitude
        - srcY * ((tiles[t].maxLatitude - tiles[t].minLatitude) \div TILE_HEIGHT)

\* C28: a sample whose source row maps to a latitude outside [-60, +60]
\* degrees is 0.0 and causes no file to be opened or read.
C28_SamplesBeyondBandAreZero ==
    (path = "full" /\ ValidArgs(call)) =>
        /\ \A k \in 1..Len(log) :
               LET lat == SampleLat(m_currentTileFile, log[k].srcY)
               IN  (lat < -60 * Deg \/ lat > 60 * Deg) =>
                       /\ m_elevationData[log[k].cell + 1] = 0
                       /\ log[k].read = "band"
                       /\ log[k].file = 0
        /\ DOMAIN m_tileCache \subseteq
               {m_currentTileFile} \cup
               {log[k].file : k \in {j \in 1..Len(log) :
                    LET lat == SampleLat(m_currentTileFile, log[j].srcY)
                    IN  lat >= -60 * Deg /\ lat <= 60 * Deg}}

\* a window on the top row of a 30..60 N tile: its first row lies beyond
\* 60 N and is 0.0, its last row was read from the tile
C28_Witness ==
    /\ path = "full" /\ ValidArgs(call)
    /\ call.lat = 60 * Deg /\ call.width = MaxWidth /\ call.height = MaxHeight
    /\ log[1].srcY < 0 /\ log[1].read = "band" /\ m_elevationData[1] = 0
    /\ log[Len(log)].srcY >= 0 /\ log[Len(log)].read \in {"ok", "hit"}
    /\ m_elevationData[Len(log)] # 0

\* C29: if the primary tile's file cannot be opened when an initialized
\* engine needs a full load, no field of the window state changes (buffer,
\* centre pixel, width, height, stride, backing tile) and the call returns
\* the previous data.
C29_OpenFailureKeepsWindow ==
    [][(m_isInitialized /\ path' = "openfail") =>
          /\ UNCHANGED <<m_isInitialized, m_elevationData, m_currentCenterX,
                         m_currentCenterY, m_currentWidth, m_currentHeight,
                         m_currentSteps, m_currentTileFile>>
          /\ log' = <<>>
          /\ ret' = dataInMeters(m_elevationData)]_vars

\* a call into the tile whose file is missing left the loaded window of
\* another tile and another size in place and returned it
C29_Witness ==
    /\ path = "openfail" /\ m_isInitialized
    /\ findTile(call.lat, call.lon) # m_currentTileFile
    /\ call.width # m_currentWidth
    /\ m_elevationData # <<>>
    /\ ret = dataInMeters(m_elevationData)

\* C30: within one call of loadOrUpdateTerrain each chunk (backing file,
\* chunkX, chunkY) whose read succeeds is read from its file at most once;
\* every later sample of the call that falls in it is served from the cache.
C30_ChunkReadOncePerCall ==
    \A j \in 1..Len(log) : \A k \in (j + 1)..Len(log) :
        (/\ log[j].read = "ok"
         /\ log[k].file = log[j].file
         /\ log[k].chunkX = log[j].chunkX /\ log[k].chunkY = log[j].chunkY
         /\ log[k].read \notin {"band", "notile", "noopen", "range"})
            => /\ log[k].read = "hit"
               /\ m_elevationData[log[k].cell + 1]
                      = Raster(log[k].file, log[k].pixelX, log[k].pixelY)

\* a call read a chunk from the file for one sample, served a later sample
\* from the cached chunk and read a second chunk from the file
C30_Witness ==
    \E j \in 1..Len(log) : \E k \in (j + 1)..Len(log) : \E l \in 1..Len(log) :
        /\ log[j].read = "ok" /\ log[k].read = "hit"
        /\ log[k].file = log[j].file
        /\ log[k].chunkX = log[j].chunkX /\ log[k].chunkY = log[j].chunkY
        /\ log[k].pixelX # log[j].pixelX
        /\ log[l].read = "ok" /\ log[l].file = log[j].file
        /\ log[l].chunkY # log[j].chunkY

\* C31: a failed or short chunk read inserts nothing into the chunk cache
\* and leaves no error state behind: a later fetch of the same chunk
\* re-attempts the read, and a later fetch of any other chunk of the file
\* can succeed.
C31_FailedReadCachesNothing ==
    [][probe'.op = "fetch" =>
          LET before == ChunksOf(m_tileCache, ChunkFile)
              after == ChunksOf(m_tileCache', ChunkFile)
              key == probe'.key
          IN  /\ result'.ev.read = "fail" <=> (probe'.fault /\ key \notin DOMAIN before)
              /\ result'.ev.read = "fail" => (after = before /\ result'.val = 0)
              /\ (key \notin DOMAIN before /\ ~probe'.fault) =>
                     /\ result'.ev.read = "ok"
                     /\ key \in DOMAIN after
              /\ ~probe'.fault =>
                     result'.val = Raster(ChunkFile, probe'.pixelX, probe'.pixelY)]_vars

\* after the read of two chunks had failed, one of them was fetched again
\* and read from the file
C31_Witness ==
    /\ probe.op = "fetch" /\ ~probe.fault
    /\ result.ev.read = "ok"
    /\ probe.key \in probe.failed
    /\ Cardinality(probe.failed) > 1
    /\ result.val = Raster(ChunkFile, probe.pixelX, probe.pixelY)

\* C32: the set of Chunk Store entries only grows: there is one entry per
\* backing filename, no call removes an entry, a file that cannot be opened
\* gets none, and the clearing of the chunk caches at the end of a load
\* leaves every entry in place, with no decoded chunk.
C32_StoreEntriesOnlyGrow ==
    [][/\ DOMAIN m_tileCache \subseteq DOMAIN m_tileCache'
       /\ DOMAIN m_tileCache' \subseteq (1..Len(tiles)) \ unopenable
       /\ path' \in {"full", "scroll", "scroll_full"} =>
              /\ m_currentTileFile' \in DOMAIN m_tileCache'
              /\ \A f \in DOMAIN m_tileCache' : m_tileCache'[f] = EmptyMap
       /\ path' = "noop" => m_tileCache' = m_tileCache]_vars

\* a scroll load ended with the files of three tiles open
C32_Witness ==
    /\ path = "scroll"
    /\ Cardinality(DOMAIN m_tileCache) >= 3
    /\ \A f \in DOMAIN m_tileCache : m_tileCache[f] = EmptyMap

\* C33: wrapLongitude(lon) lies in [0, 360) and is congruent to lon modulo
\* 360, to the rounding of one double addition, for every input, negative
\* and >= 360 included, so that findTile(lat, lon) equals findTile(lat,
\* lon + 360*k) whenever lon + 360*k is a double.
C33_WrapLongitudeInRangeAndCongruent ==
    probe.op = "wrapLongitude" =>
        /\ result.wrapped >= 0
        /\ result.wrapped < kLongitudeWrap * SubDeg
        /\ (result.wrapped - probe.lon) % (kLongitudeWrap * SubDeg)
               \in {0, 1, kLongitudeWrap * SubDeg - 1}
        /\ IsDouble(probe.turned) => result.turnedTile = result.tile
        /\ probe.lon % SubDeg = 0 =>
               result.wrapped = SubDeg * wrapLongitude(probe.lon \div SubDeg)

\* C34 as stated: for every tile with longitudes in [0, 360] and every
\* longitude, longitudeSpan(tile) lies in (0, 360] and
\* longitudeOffsetWithinTile(tile, lon) lies in [0, longitudeSpan(tile)];
\* when the wrapped longitude is inside the tile, the offset is its eastward
\* distance from minLongitude, also for a tile that crosses the seam.
C34_SpanPositiveOffsetWithinSpan ==
    probe.op = "longitudeOffsetWithinTile" =>
        LET tile == probe.tile
            wrapped == wrapLongitude(probe.lon)
        IN  /\ result.span > 0
            /\ result.span <= kLongitudeWrap
            /\ result.offset >= 0
            /\ result.offset <= result.span
            /\ longitudeInTile(tile, wrapped) =>
                   result.offset = (wrapped - tile.minLongitude) % kLongitudeWrap

\* C34 amended: longitudeSpan(tile) lies in [0, 360] and is zero only for
\* the tile from 360 to 0; the offset lies in [0, longitudeSpan(tile)] and,
\* when the wrapped longitude is inside the tile, is its eastward distance
\* from minLongitude, also for a tile that crosses the seam.
C34_OffsetWithinSpan ==
    probe.op = "longitudeOffsetWithinTile" =>
        LET tile == probe.tile
            wrapped == wrapLongitude(probe.lon)
        IN  /\ result.span >= 0
            /\ result.span <= kLongitudeWrap
            /\ result.span = 0 <=>
                   tile.minLongitude - tile.maxLongitude = kLongitudeWrap
            /\ result.offset >= 0
            /\ result.offset <= result.span
            /\ longitudeInTile(tile, wrapped) =>
                   result.offset = (wrapped - tile.minLongitude) % kLongitudeWrap

\* a longitude given below zero that lies east of the seam in a tile across it
C34_Witness ==
    /\ probe.op = "longitudeOffsetWithinTile"
    /\ probe.tile.minLongitude > probe.tile.maxLongitude
    /\ probe.lon < 0
    /\ wrapLongitude(probe.lon) < probe.tile.minLongitude
    /\ longitudeInTile(probe.tile, wrapLongitude(probe.lon))
    /\ result.offset > kLongitudeWrap - probe.tile.minLongitude
    /\ result.offset < result.span

\* C35: in every reachable state of an initialized engine the stored center
\* pixel lies inside the tile raster, 0 <= centerX <= TILE_WIDTH - 1 and
\* 0 <= centerY <= TILE_HEIGHT - 1, after full loads and after any sequence
\* of scroll loads.
C35_StoredCenterInsideRaster ==
    m_isInitialized =>
        /\ 0 <= m_currentCenterX /\ m_currentCenterX <= TILE_WIDTH - 1
        /\ 0 <= m_currentCenterY /\ m_currentCenterY <= TILE_HEIGHT - 1

\* C36: after any sequence of fetchTile and clear calls the number of
\* cached tiles never exceeds maxCachedTiles, which is at least 1, and the
\* recency list holds exactly the keys of the cache map, each once; a
\* fetchTile that fails (resolution <= 1 or no tile for the request) leaves
\* the cache and the recency list unchanged.
C36_CacheBoundedListMatchesMap ==
    [][/\ maxCachedTiles_' >= 1
       /\ Cardinality(DOMAIN cache_') <= maxCachedTiles_'
       /\ Len(lruList_') = Cardinality(DOMAIN cache_')
       /\ {lruList_'[i] : i \in 1..Len(lruList_')} = DOMAIN cache_'
       /\ probe'.op = "fetchTile" =>
              /\ (\/ probe'.request.resolution <= 1
                  \/ findTile(probe'.request.latStartDeg + Deg \div 2,
                              probe'.request.lonStartDeg + Deg \div 2) = NoTile)
                     => ~result'.ok
              /\ ~result'.ok => UNCHANGED <<cache_, lruList_>>]_vars

\* a request outside the covered band failed on a full cache of two tiles
C36_Witness ==
    /\ probe.op = "fetchTile"
    /\ ~result.ok
    /\ probe.request.resolution > 1
    /\ maxCachedTiles_ > 1
    /\ Cardinality(DOMAIN cache_) = maxCachedTiles_
    /\ Len(probe.inserted) > maxCachedTiles_

\* position of key k in the list q of distinct keys
PositionIn(q, k) == CHOOSE i \in 1..Len(q) : q[i] = k

\* C37: when a fetchTile miss finds the cache full, the entry evicted is the
\* least recently used one, where a hit or an insertion makes a key the
\* most recently used: every key that stays cached was fetched more
\* recently than the evicted one.
C37_EvictsLeastRecentlyUsed ==
    [][probe'.op = "fetchTile" =>
          /\ result'.ok => lruList_'[1] = probe'.key
          /\ probe'.evicted # {} <=>
                 /\ result'.ok /\ ~probe'.hit
                 /\ Cardinality(DOMAIN cache_) = maxCachedTiles_
          /\ Cardinality(probe'.evicted) <= 1
          /\ \A e \in probe'.evicted : \A k \in DOMAIN cache_ \ {e} :
                 /\ k \in DOMAIN cache_'
                 /\ PositionIn(Fetched, k) < PositionIn(Fetched, e)]_vars

\* a miss evicted a key that had been inserted after a key that stays cached
C37_Witness ==
    /\ probe.op = "fetchTile"
    /\ \E e \in probe.evicted : \E k \in DOMAIN cache_ \ {probe.key} :
           /\ PositionIn(probe.inserted, e) < PositionIn(probe.inserted, k)
           /\ PositionIn(probe.fetched, k) < PositionIn(probe.fetched, e)

\* C38: for every request, fetchTile returns the sample that a fresh load of
\* that exact request (latStartDeg, lonStartDeg, resolution) would produce:
\* a cache hit never returns data computed for another start coordinate.
C38_FetchReturnsFreshLoad ==
    (probe.op = "fetchTile" /\ result.ok) =>
        result.data = loadTile(probe.request, streams_, unopenable).sample

====
